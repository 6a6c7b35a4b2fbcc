------------------------------ MODULE Accounts ------------------------------
(***************************************************************************)
(* Users and invitations: signup, e-mail verification, the invitation      *)
(* endpoints and the admin endpoints that change or delete a user.         *)
(*                                                                         *)
(* Every handler is an asynchronous function: between two awaits any other *)
(* request may run.  A handler is therefore a sequence of steps, one per   *)
(* database round trip, and keeps in loc[r] what it read at earlier steps. *)
(* A prisma.$transaction is one step.  A request that is refused before it *)
(* read anything leaves no trace and is not a step.                        *)
(***************************************************************************)
EXTENDS Naturals, FiniteSets

CONSTANTS
    Users,      \* pool of user ids (cuids, never reused)
    Emails,     \* lower-cased addresses
    Invites,    \* pool of invitation ids; an invitation's code is its id
    Reqs,       \* requests the process can have in flight at once
    None,       \* absent value
    SeedAdmin,  \* the admin seed.ts created, or None on an empty database
    SeedInvite, \* the invitation seed.ts created with it
    Ops,        \* endpoints the clients call, and what time does
    Patches,    \* bodies of PATCH /admin/users/:id that they send
    SignupRequiresInvite,     \* config.ts flag: its values over the restarts
    EmailVerificationRequired \* config.ts flag

Endpoints == {"signup", "verify", "invite_create", "invite_delete",
              "user_patch", "user_delete", "invite_expire", "token_expire"}
Settings    == {"promote", "demote", "disable", "enable"}
PatchBodies == {p \in SUBSET Settings : /\ ~ {"promote", "demote"} \subseteq p
                                        /\ ~ {"disable", "enable"} \subseteq p}

ASSUME ConstantsAssumption ==
    /\ None \notin Users /\ None \notin Emails /\ None \notin Invites
    /\ SeedAdmin \in Users \cup {None}
    /\ SeedInvite \in Invites
    /\ Ops \subseteq Endpoints /\ Patches \subseteq PatchBodies
    /\ SignupRequiresInvite \subseteq {"true", "false"}
    /\ EmailVerificationRequired \in BOOLEAN

VARIABLES
    users, email, admins, disabled, verified,   \* table users
    token,                                      \* table email_tokens
    invites, creator, expired, consumed, consumer, \* table invitations
    everUser, everInvite,                       \* ids handed out so far
    pc, loc,                                    \* in-flight requests
    signups,  \* history: accounts created through each invitation
    founders  \* history: accounts that signup made admin

userVars   == <<users, email, admins, disabled, verified, token, everUser>>
inviteVars == <<invites, creator, expired, consumed, consumer, everInvite>>
history    == <<signups, founders>>
vars       == <<userVars, inviteVars, pc, loc, history>>

TokenStates == {"none", "stored", "mailed", "used", "expired"}
Steps == {"idle", "su_email", "su_commit", "su_token", "su_mail", "ve_commit",
          "ic_create", "id_read", "id_delete",
          "up_read", "up_count", "up_write", "ud_read", "ud_delete"}

Blank == [actor |-> None, asAdmin |-> FALSE, email |-> None, inv |-> None,
          user |-> None, target |-> None, patch |-> {}]
Locals == [actor : Users \cup {None}, asAdmin : BOOLEAN,
           email : Emails \cup {None}, inv : Invites \cup {None},
           user : Users \cup {None}, target : Users \cup {None},
           patch : SUBSET Settings]

Init ==
    /\ users = {SeedAdmin} \ {None}
    /\ email \in {f \in [Users -> Emails \cup {None}] :
                    \A u \in Users : (f[u] = None) <=> (u # SeedAdmin)}
    /\ admins = users /\ verified = users /\ disabled = {}
    /\ token = [u \in Users |-> "none"]
    /\ invites = IF SeedAdmin = None THEN {} ELSE {SeedInvite}
    /\ creator = [i \in Invites |-> IF i \in invites THEN SeedAdmin ELSE None]
    /\ expired = {} /\ consumed = {}
    /\ consumer = [i \in Invites |-> None]
    /\ everUser = users /\ everInvite = invites
    /\ pc = [r \in Reqs |-> "idle"]
    /\ loc = [r \in Reqs |-> Blank]
    /\ signups = [i \in Invites |-> {}]
    /\ founders = {}

Goto(r, step, locals) ==
    /\ pc' = [pc EXCEPT ![r] = step]
    /\ loc' = [loc EXCEPT ![r] = locals]
Finish(r) == Goto(r, "idle", Blank)   \* the response is sent

-----------------------------------------------------------------------------
(* POST /auth/signup.  The invitation and the address are checked first,   *)
(* then the password is hashed, then one transaction creates the account.  *)

UsableAgain(i) == i \in invites /\ i \notin expired     \* mutant
Usable(i) == i \in invites /\ i \notin consumed /\ i \notin expired
EmailTaken(e) == \E u \in users : email[u] = e
FirstTwoUsers == Cardinality(users) <= 1               \* mutant
FirstUser == users = {}

SignupInvite(r, e, i) ==
    /\ pc[r] = "idle" /\ "signup" \in Ops
    /\ IF i # None THEN "true" \in SignupRequiresInvite /\ Usable(i)
                   ELSE "false" \in SignupRequiresInvite
    /\ Goto(r, "su_email", [Blank EXCEPT !.email = e, !.inv = i])
    /\ UNCHANGED <<userVars, inviteVars, history>>

SignupEmail(r) ==
    /\ pc[r] = "su_email"
    /\ IF EmailTaken(loc[r].email) THEN Finish(r) ELSE Goto(r, "su_commit", loc[r])
    /\ UNCHANGED <<userVars, inviteVars, history>>

\* The unique index on users.email and the row the update needs.
InsertableTwice(r) == loc[r].inv # None => loc[r].inv \in invites   \* mutant
Insertable(r) ==
    /\ ~ EmailTaken(loc[r].email)
    /\ loc[r].inv # None => loc[r].inv \in invites

SignupRollback(r) ==
    /\ pc[r] = "su_commit" /\ ~ Insertable(r)
    /\ Finish(r)
    /\ UNCHANGED <<userVars, inviteVars, history>>

ConsumeUnmarked(i, u) ==                                             \* mutant
    IF i \notin invites THEN UNCHANGED <<consumed, consumer, signups>>
    ELSE /\ UNCHANGED consumed
         /\ consumer' = [consumer EXCEPT ![i] = u]
         /\ signups' = [signups EXCEPT ![i] = @ \cup {u}]
Consume(i, u) ==
    IF i \notin invites THEN UNCHANGED <<consumed, consumer, signups>>
    ELSE /\ consumed' = consumed \cup {i}
         /\ consumer' = [consumer EXCEPT ![i] = u]
         /\ signups' = [signups EXCEPT ![i] = @ \cup {u}]

SignupCommit(r, u) ==
    /\ pc[r] = "su_commit" /\ Insertable(r)
    /\ u \notin everUser
    /\ users' = users \cup {u}
    /\ everUser' = everUser \cup {u}
    /\ email' = [email EXCEPT ![u] = loc[r].email]
    /\ admins' = IF FirstUser THEN admins \cup {u} ELSE admins
    /\ founders' = IF FirstUser THEN founders \cup {u} ELSE founders
    /\ Consume(loc[r].inv, u)
    /\ IF EmailVerificationRequired
       THEN Goto(r, "su_token", [loc[r] EXCEPT !.user = u])
       ELSE Finish(r)
    /\ UNCHANGED <<disabled, verified, token, invites, creator, expired, everInvite>>

\* email_tokens.userId is a foreign key: the account may be gone by now.
AccountExists(r) == loc[r].user \in users

SignupToken(r) ==
    /\ pc[r] = "su_token"
    /\ IF AccountExists(r)
       THEN /\ token' = [token EXCEPT ![loc[r].user] = "stored"]
            /\ Goto(r, "su_mail", loc[r])
       ELSE Finish(r) /\ UNCHANGED token
    /\ UNCHANGED <<users, email, admins, disabled, verified, everUser, inviteVars, history>>

\* The mail arrives, or sendMail throws and the caller sees a 500.
SignupMail(r) ==
    /\ pc[r] = "su_mail"
    /\ \/ UNCHANGED token
       \/ /\ token[loc[r].user] = "stored"
          /\ token' = [token EXCEPT ![loc[r].user] = "mailed"]
    /\ Finish(r)
    /\ UNCHANGED <<users, email, admins, disabled, verified, everUser, inviteVars, history>>

-----------------------------------------------------------------------------
(* POST /auth/verify-email *)

VerifyRead(r, u) ==
    /\ pc[r] = "idle" /\ "verify" \in Ops
    /\ token[u] = "mailed"
    /\ Goto(r, "ve_commit", [Blank EXCEPT !.user = u])
    /\ UNCHANGED <<userVars, inviteVars, history>>

TokenKept(u) == UNCHANGED token                                      \* mutant
ConsumeToken(u) == token' = [token EXCEPT ![u] = "used"]

\* One transaction: both rows, or neither when the account is gone.
VerifyCommit(r) ==
    /\ pc[r] = "ve_commit"
    /\ IF AccountExists(r)
       THEN /\ verified' = verified \cup {loc[r].user}
            /\ ConsumeToken(loc[r].user)
       ELSE UNCHANGED <<verified, token>>
    /\ Finish(r)
    /\ UNCHANGED <<users, email, admins, disabled, everUser, inviteVars, history>>

-----------------------------------------------------------------------------
(* POST and DELETE /invitations *)

\* loadCurrentUser: the caller's row as it is when the request starts.
Authenticate(r, a, op, step, locals) ==
    /\ pc[r] = "idle" /\ op \in Ops
    /\ a \in users /\ a \notin disabled
    /\ Goto(r, step, [locals EXCEPT !.actor = a, !.asAdmin = (a \in admins)])
    /\ UNCHANGED <<userVars, inviteVars, history>>

InviteCreateBegin(r, a) ==
    /\ a \in admins
    /\ Authenticate(r, a, "invite_create", "ic_create", Blank)

CallerTrusted(r) == TRUE                                             \* mutant
\* invitations.createdById is a foreign key, and the caller may be gone by now.
CreatorExists(r) == loc[r].actor \in users

InviteCreate(r, i) ==
    /\ pc[r] = "ic_create"
    /\ i \notin everInvite
    /\ IF CreatorExists(r)
       THEN /\ invites' = invites \cup {i}
            /\ everInvite' = everInvite \cup {i}
            /\ creator' = [creator EXCEPT ![i] = loc[r].actor]
       ELSE UNCHANGED <<invites, everInvite, creator>>
    /\ Finish(r)
    /\ UNCHANGED <<userVars, expired, consumed, consumer, history>>

InviteDeleteBegin(r, a, i) ==
    Authenticate(r, a, "invite_delete", "id_read", [Blank EXCEPT !.inv = i])

MayDeleteUsed(r) ==                                                  \* mutant
    LET i == loc[r].inv IN i \in invites /\ (loc[r].asAdmin \/ creator[i] = loc[r].actor)
MayDelete(r) ==
    LET i == loc[r].inv IN
    /\ i \in invites /\ i \notin consumed
    /\ loc[r].asAdmin \/ creator[i] = loc[r].actor

InviteDeleteRead(r) ==
    /\ pc[r] = "id_read"
    /\ IF MayDelete(r) THEN Goto(r, "id_delete", loc[r]) ELSE Finish(r)
    /\ UNCHANGED <<userVars, inviteVars, history>>

InviteDelete(r) ==
    /\ pc[r] = "id_delete"
    /\ LET i == loc[r].inv IN
       /\ invites' = invites \ {i}
       /\ consumed' = consumed \ {i}
       /\ expired' = expired \ {i}
       /\ creator' = [creator EXCEPT ![i] = None]
       /\ consumer' = [consumer EXCEPT ![i] = None]
    /\ Finish(r)
    /\ UNCHANGED <<userVars, everInvite, history>>

-----------------------------------------------------------------------------
(* PATCH and DELETE /admin/users/:id *)

EnabledAdmins == admins \ disabled

UserPatchBegin(r, a, t, p) ==
    /\ a \in admins
    /\ Authenticate(r, a, "user_patch", "up_read",
                    [Blank EXCEPT !.target = t, !.patch = p])

DemotesSelf(r) == loc[r].target = loc[r].actor /\ "demote" \in loc[r].patch  \* mutant
LosesSelf(r) == loc[r].target = loc[r].actor /\ {"demote", "disable"} \cap loc[r].patch # {}

UserPatchRead(r) ==
    /\ pc[r] = "up_read"
    /\ IF loc[r].target \notin users \/ LosesSelf(r) THEN Finish(r)
       ELSE IF "demote" \in loc[r].patch /\ loc[r].target \in admins
            THEN Goto(r, "up_count", loc[r])
            ELSE Goto(r, "up_write", loc[r])
    /\ UNCHANGED <<userVars, inviteVars, history>>

UserPatchCount(r) ==
    /\ pc[r] = "up_count"
    /\ IF Cardinality(EnabledAdmins) <= 1 THEN Finish(r) ELSE Goto(r, "up_write", loc[r])
    /\ UNCHANGED <<userVars, inviteVars, history>>

With(S, x, setting, clearing, p) ==
    IF setting \in p THEN S \cup {x} ELSE IF clearing \in p THEN S \ {x} ELSE S

UserPatchWrite(r) ==
    /\ pc[r] = "up_write"
    /\ LET t == loc[r].target  p == loc[r].patch IN
       IF t \in users
       THEN /\ admins' = With(admins, t, "promote", "demote", p)
            /\ disabled' = With(disabled, t, "disable", "enable", p)
       ELSE UNCHANGED <<admins, disabled>>   \* the row is gone: P2025
    /\ Finish(r)
    /\ UNCHANGED <<users, email, verified, token, everUser, inviteVars, history>>

UserDeleteBegin(r, a, t) ==
    /\ a \in admins /\ t # a
    /\ Authenticate(r, a, "user_delete", "ud_read", [Blank EXCEPT !.target = t])

UserDeleteRead(r) ==
    /\ pc[r] = "ud_read"
    /\ IF loc[r].target \in users THEN Goto(r, "ud_delete", loc[r]) ELSE Finish(r)
    /\ UNCHANGED <<userVars, inviteVars, history>>

CreatorIgnored(t) == t \in users                                      \* mutant
\* invitations.createdById restricts the delete.
Deletable(t) == t \in users /\ \A i \in invites : creator[i] # t

ConsumerKept(t) == consumer                                          \* mutant
\* invitations.consumedById is set to NULL.
ConsumerCleared(t) == [i \in Invites |-> IF consumer[i] = t THEN None ELSE consumer[i]]

\* email_tokens cascades.
UserDelete(r) ==
    /\ pc[r] = "ud_delete"
    /\ LET t == loc[r].target IN
       IF Deletable(t)
       THEN /\ users' = users \ {t}
            /\ admins' = admins \ {t}
            /\ disabled' = disabled \ {t}
            /\ verified' = verified \ {t}
            /\ email' = [email EXCEPT ![t] = None]
            /\ token' = [token EXCEPT ![t] = "none"]
            /\ consumer' = ConsumerCleared(t)
       ELSE UNCHANGED <<users, admins, disabled, verified, email, token, consumer>>
    /\ Finish(r)
    /\ UNCHANGED <<everUser, invites, creator, expired, consumed, everInvite, history>>

-----------------------------------------------------------------------------
(* Time passes, and the process can stop and start again. *)

InviteExpire(i) ==
    /\ "invite_expire" \in Ops /\ i \in invites /\ i \notin expired
    /\ expired' = expired \cup {i}
    /\ UNCHANGED <<userVars, invites, creator, consumed, consumer, everInvite, pc, loc, history>>

TokenExpire(u) ==
    /\ "token_expire" \in Ops /\ token[u] \in {"stored", "mailed"}
    /\ token' = [token EXCEPT ![u] = "expired"]
    /\ UNCHANGED <<users, email, admins, disabled, verified, everUser, inviteVars, pc, loc, history>>

Restart ==
    /\ \E r \in Reqs : pc[r] # "idle"
    /\ pc' = [r \in Reqs |-> "idle"]
    /\ loc' = [r \in Reqs |-> Blank]
    /\ UNCHANGED <<userVars, inviteVars, history>>

Signup(r) ==
    \/ \E e \in Emails, i \in Invites \cup {None} : SignupInvite(r, e, i)
    \/ SignupEmail(r) \/ SignupRollback(r)
    \/ \E u \in Users : SignupCommit(r, u)
    \/ SignupToken(r) \/ SignupMail(r)

Verify(r) == (\E u \in Users : VerifyRead(r, u)) \/ VerifyCommit(r)

Invitation(r) ==
    \/ \E a \in Users : InviteCreateBegin(r, a)
    \/ \E i \in Invites : InviteCreate(r, i)
    \/ \E a \in Users, i \in Invites : InviteDeleteBegin(r, a, i)
    \/ InviteDeleteRead(r) \/ InviteDelete(r)

AdminUsers(r) ==
    \/ \E a, t \in Users, p \in Patches : UserPatchBegin(r, a, t, p)
    \/ UserPatchRead(r) \/ UserPatchCount(r) \/ UserPatchWrite(r)
    \/ \E a, t \in Users : UserDeleteBegin(r, a, t)
    \/ UserDeleteRead(r) \/ UserDelete(r)

Next ==
    \/ \E r \in Reqs : Signup(r) \/ Verify(r) \/ Invitation(r) \/ AdminUsers(r)
    \/ \E i \in Invites : InviteExpire(i)
    \/ \E u \in Users : TokenExpire(u)
    \/ Restart

Spec == Init /\ [][Next]_vars

-----------------------------------------------------------------------------
TypeOK ==
    /\ users \subseteq Users /\ email \in [Users -> Emails \cup {None}]
    /\ admins \subseteq users /\ disabled \subseteq users /\ verified \subseteq users
    /\ users \subseteq everUser /\ everUser \subseteq Users
    /\ token \in [Users -> TokenStates]
    /\ invites \subseteq everInvite /\ everInvite \subseteq Invites
    /\ creator \in [Invites -> Users \cup {None}]
    /\ expired \subseteq invites /\ consumed \subseteq invites
    /\ consumer \in [Invites -> Users \cup {None}]
    /\ pc \in [Reqs -> Steps] /\ loc \in [Reqs -> Locals]
    /\ signups \in [Invites -> SUBSET everUser]
    /\ founders \subseteq everUser

\* No two accounts share an address, however two signups with the same address
\* interleave: the early check (auth.ts:51) can be stale, the insert cannot.
UniqueEmail == \A u, v \in users : email[u] = email[v] => u = v

\* Invitations refer to accounts that exist: deleting a user is refused while
\* invitations name it as creator and clears it where it is the consumer, also
\* when the delete overlaps the creation or the use of an invitation.
References ==
    \A i \in invites : creator[i] \in users /\ consumer[i] \in users \cup {None}

\* Signup is all or nothing: an invitation is marked used exactly when an account
\* came out of it, and its recorded consumer is one of those accounts.
InviteLedger ==
    \A i \in invites : /\ i \in consumed <=> signups[i] # {}
                       /\ consumer[i] # None => consumer[i] \in signups[i]

\* With SIGNUP_REQUIRES_INVITE every account but the seeded one came from an
\* invitation that still existed when the account was committed.
InviteOnly ==
    "false" \notin SignupRequiresInvite =>
        everUser \ {SeedAdmin} \subseteq UNION {signups[i] : i \in everInvite}

\* An account is verified exactly when its e-mail token was consumed; both rows
\* change together or not at all (auth.ts:179), whatever happens to the account
\* between reading the token and consuming it.
VerifiedByToken ==
    \A u \in Users : u \in verified \ {SeedAdmin} <=> token[u] = "used"

-----------------------------------------------------------------------------
(* Promises that overlapping requests break, and which overlaps do.          *)

\* Requests past the check of their invitation, between check and deletion of an
\* invitation, and those that take admin rights away.
Admits(r) == pc[r] \in {"su_email", "su_commit"} /\ loc[r].inv # None
Withdraws(r) == pc[r] = "id_delete"
Removes(r) ==
    \/ pc[r] \in {"ud_read", "ud_delete"}
    \/ pc[r] \in {"up_read", "up_count", "up_write"} /\ {"demote", "disable"} \cap loc[r].patch # {}

OneSignupPerInvite == \A r, s \in Reqs :
    Admits(r) /\ Admits(s) /\ loc[r].inv = loc[s].inv => r = s
NoneWithdrawnInUse == \A r, s \in Reqs :
    Withdraws(r) /\ Admits(s) => loc[r].inv # loc[s].inv
OneRemoval == \A r, s \in Reqs : Removes(r) /\ Removes(s) => r = s

\* No two requests overlap in these ways; all others may. The run accounts_apart keeps
\* to such states.
Apart == OneSignupPerInvite /\ NoneWithdrawnInUse /\ OneRemoval

\* auth.ts:45: an invitation that was already used creates no further account, if
\* no two signups with it overlap.
InviteSingleUse == \A i \in Invites : \A u, v \in signups[i] : u = v

\* invitations.ts:80: a used invitation is never deleted, if no signup with it
\* overlaps the deletion.
UsedInviteKept == [][\A i \in consumed : i \in invites']_vars

\* admin-users.ts:48: the platform is never left without an (enabled) admin, if no
\* two requests that take rights away overlap, whatever else does.
AdminRemains == users # {} => EnabledAdmins # {}

\* auth.ts:61: only the first-ever account becomes admin by signing up, under the
\* same condition, also if the first signups overlap.
SoleFounder == /\ \A u, v \in founders : u = v
               /\ SeedAdmin # None => founders = {}

\* admin-users.ts:48: an account stops being an enabled admin only through a
\* request that some other account made.
NoSelfLoss ==
    [][\A u \in EnabledAdmins \ EnabledAdmins' :
         \E r \in Reqs : /\ pc[r] \in {"up_write", "ud_delete"} /\ pc'[r] = "idle"
                         /\ loc[r].target = u /\ loc[r].actor # u]_vars

-----------------------------------------------------------------------------
(* The promise of all endpoints together.  Who is seen in the tables, and    *)
(* which invitations, as Registry has them.                                  *)
AccountRow(u)    == [address |-> email[u], admin |-> u \in admins,
                     enabled |-> u \notin disabled, verified |-> u \in verified]
InvitationRow(i) == [by |-> creator[i], used |-> i \in consumed, usedBy |-> consumer[i]]
AccountTable     == [u \in users |-> AccountRow(u)]
InvitationTable  == [i \in invites |-> InvitationRow(i)]

Reg == INSTANCE Registry WITH account <- AccountTable, invitation <- InvitationTable,
           InviteRequired <- "false" \notin SignupRequiresInvite

\* However the steps of the handlers interleave, and wherever a restart cuts them
\* off, the tables change as if each request acted at once or not at all.
ActsAtOnce == Reg!LaxSpec

\* And with every check of the request (auth.ts:45, invitations.ts:80,
\* admin-users.ts:49) true at that moment, if no requests overlap as Apart excludes.
ChecksHold == Reg!StrictSpec
=============================================================================
