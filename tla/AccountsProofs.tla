--------------------------- MODULE AccountsProofs ---------------------------
(***************************************************************************)
(* Proofs about Accounts, for every pool of ids and every number of        *)
(* requests in flight.  IInv is the inductive invariant: the type          *)
(* invariant, the safety invariants, and what each step of a handler still *)
(* knows from its earlier steps.                                           *)
(***************************************************************************)
EXTENDS Accounts, TLAPS

LEMMA BlankType == Blank \in Locals
  BY ConstantsAssumption DEF Blank, Locals

\* A handler that goes to another step with well-typed locals keeps the
\* program counters and the locals well typed.
LEMMA GotoType ==
  ASSUME NEW r \in Reqs, NEW step \in Steps, NEW l \in Locals,
         pc \in [Reqs -> Steps], loc \in [Reqs -> Locals], Goto(r, step, l)
  PROVE  pc' \in [Reqs -> Steps] /\ loc' \in [Reqs -> Locals]
  BY DEF Goto

LEMMA FinishType ==
  ASSUME NEW r \in Reqs,
         pc \in [Reqs -> Steps], loc \in [Reqs -> Locals], Finish(r)
  PROVE  pc' \in [Reqs -> Steps] /\ loc' \in [Reqs -> Locals]
  BY BlankType DEF Goto, Finish, Steps

-----------------------------------------------------------------------------
LEMMA TypeInit == Init => TypeOK
  BY BlankType, ConstantsAssumption DEF Init, TypeOK, TokenStates, Steps

USE DEF userVars, inviteVars, history

LEMMA TypeSignup == ASSUME TypeOK, NEW r \in Reqs, Signup(r) PROVE TypeOK'
<1>0. loc[r] \in Locals
  BY DEF TypeOK
<1>1. ASSUME NEW e \in Emails, NEW i \in Invites \cup {None}, SignupInvite(r, e, i)
      PROVE TypeOK'
  <2>1. [Blank EXCEPT !.email = e, !.inv = i] \in Locals
    BY BlankType DEF Locals
  <2>2. pc' \in [Reqs -> Steps] /\ loc' \in [Reqs -> Locals]
    BY <1>1, <2>1, GotoType DEF SignupInvite, TypeOK, Steps
  <2> QED
    BY <1>1, <2>2 DEF SignupInvite, TypeOK
<1>2. CASE SignupEmail(r)
  <2>1. pc' \in [Reqs -> Steps] /\ loc' \in [Reqs -> Locals]
    BY <1>0, <1>2, GotoType, FinishType DEF SignupEmail, TypeOK, Steps
  <2> QED
    BY <1>2, <2>1 DEF SignupEmail, TypeOK
<1>3. CASE SignupRollback(r)
  BY <1>3, FinishType DEF SignupRollback, TypeOK
<1>4. ASSUME NEW u \in Users, SignupCommit(r, u) PROVE TypeOK'
  <2>1. [loc[r] EXCEPT !.user = u] \in Locals
    BY <1>0 DEF Locals
  <2>2. pc' \in [Reqs -> Steps] /\ loc' \in [Reqs -> Locals]
    BY <1>4, <2>1, GotoType, FinishType DEF SignupCommit, TypeOK, Steps
  <2>3. /\ consumed' \subseteq invites
        /\ consumer' \in [Invites -> Users \cup {None}]
        /\ signups' \in [Invites -> SUBSET (everUser \cup {u})]
    BY <1>4 DEF SignupCommit, Consume, TypeOK
  <2>4. email' \in [Users -> Emails \cup {None}]
    BY <1>0, <1>4 DEF SignupCommit, TypeOK, Locals
  <2> QED
    BY <1>4, <2>2, <2>3, <2>4 DEF SignupCommit, TypeOK
<1>5. CASE SignupToken(r)
  <2>1. pc' \in [Reqs -> Steps] /\ loc' \in [Reqs -> Locals]
    BY <1>0, <1>5, GotoType, FinishType DEF SignupToken, TypeOK, Steps
  <2> QED
    BY <1>5, <2>1 DEF SignupToken, TypeOK, TokenStates
<1>6. CASE SignupMail(r)
  BY <1>6, FinishType DEF SignupMail, TypeOK, TokenStates
<1> QED
  BY <1>1, <1>2, <1>3, <1>4, <1>5, <1>6 DEF Signup

LEMMA TypeVerify == ASSUME TypeOK, NEW r \in Reqs, Verify(r) PROVE TypeOK'
<1>1. ASSUME NEW u \in Users, VerifyRead(r, u) PROVE TypeOK'
  <2>1. [Blank EXCEPT !.user = u] \in Locals
    BY BlankType DEF Locals
  <2>2. pc' \in [Reqs -> Steps] /\ loc' \in [Reqs -> Locals]
    BY <1>1, <2>1, GotoType DEF VerifyRead, TypeOK, Steps
  <2> QED
    BY <1>1, <2>2 DEF VerifyRead, TypeOK
<1>2. CASE VerifyCommit(r)
  BY <1>2, FinishType DEF VerifyCommit, ConsumeToken, AccountExists, TypeOK, TokenStates
<1> QED
  BY <1>1, <1>2 DEF Verify

\* Authenticate only starts a handler.
LEMMA TypeAuthenticate ==
  ASSUME TypeOK, NEW r \in Reqs, NEW a \in Users, NEW op, NEW step \in Steps,
         NEW l \in Locals, Authenticate(r, a, op, step, l)
  PROVE  TypeOK'
<1>1. \A b \in BOOLEAN : [l EXCEPT !.actor = a, !.asAdmin = b] \in Locals
  BY DEF Locals
<1>2. pc' \in [Reqs -> Steps] /\ loc' \in [Reqs -> Locals]
  <2>1. (a \in admins) \in BOOLEAN
    OBVIOUS
  <2>2. [l EXCEPT !.actor = a, !.asAdmin = (a \in admins)] \in Locals
    BY <1>1, <2>1, Zenon
  <2> QED
    BY <2>2, GotoType DEF Authenticate, TypeOK
<1> QED
  BY <1>2 DEF Authenticate, TypeOK

LEMMA TypeInvitation == ASSUME TypeOK, NEW r \in Reqs, Invitation(r) PROVE TypeOK'
<1>0. loc[r] \in Locals
  BY DEF TypeOK
<1>1. ASSUME NEW a \in Users, InviteCreateBegin(r, a) PROVE TypeOK'
  BY <1>1, BlankType, TypeAuthenticate DEF InviteCreateBegin, Steps
<1>2. ASSUME NEW i \in Invites, InviteCreate(r, i) PROVE TypeOK'
  BY <1>0, <1>2, FinishType DEF InviteCreate, CreatorExists, TypeOK, Locals
<1>3. ASSUME NEW a \in Users, NEW i \in Invites, InviteDeleteBegin(r, a, i) PROVE TypeOK'
  <2>1. [Blank EXCEPT !.inv = i] \in Locals
    BY BlankType DEF Locals
  <2> QED
    BY <1>3, <2>1, TypeAuthenticate DEF InviteDeleteBegin, Steps
<1>4. CASE InviteDeleteRead(r)
  <2>1. pc' \in [Reqs -> Steps] /\ loc' \in [Reqs -> Locals]
    BY <1>0, <1>4, GotoType, FinishType DEF InviteDeleteRead, TypeOK, Steps
  <2> QED
    BY <1>4, <2>1 DEF InviteDeleteRead, TypeOK
<1>5. CASE InviteDelete(r)
  BY <1>5, FinishType DEF InviteDelete, TypeOK
<1> QED
  BY <1>1, <1>2, <1>3, <1>4, <1>5 DEF Invitation

LEMMA TypeAdminUsers == ASSUME TypeOK, NEW r \in Reqs, AdminUsers(r) PROVE TypeOK'
<1>0. loc[r] \in Locals
  BY DEF TypeOK
<1>1. ASSUME NEW a \in Users, NEW t \in Users, NEW p \in Patches, UserPatchBegin(r, a, t, p)
      PROVE TypeOK'
  <2>1. [Blank EXCEPT !.target = t, !.patch = p] \in Locals
    BY BlankType, ConstantsAssumption DEF Locals, PatchBodies
  <2> QED
    BY <1>1, <2>1, TypeAuthenticate DEF UserPatchBegin, Steps
<1>2. CASE UserPatchRead(r)
  <2>1. pc' \in [Reqs -> Steps] /\ loc' \in [Reqs -> Locals]
    BY <1>0, <1>2, GotoType, FinishType DEF UserPatchRead, TypeOK, Steps
  <2> QED
    BY <1>2, <2>1 DEF UserPatchRead, TypeOK
<1>3. CASE UserPatchCount(r)
  <2>1. pc' \in [Reqs -> Steps] /\ loc' \in [Reqs -> Locals]
    BY <1>0, <1>3, GotoType, FinishType DEF UserPatchCount, TypeOK, Steps
  <2> QED
    BY <1>3, <2>1 DEF UserPatchCount, TypeOK
<1>4. CASE UserPatchWrite(r)
  BY <1>4, FinishType DEF UserPatchWrite, With, TypeOK
<1>5. ASSUME NEW a \in Users, NEW t \in Users, UserDeleteBegin(r, a, t) PROVE TypeOK'
  <2>1. [Blank EXCEPT !.target = t] \in Locals
    BY BlankType DEF Locals
  <2> QED
    BY <1>5, <2>1, TypeAuthenticate DEF UserDeleteBegin, Steps
<1>6. CASE UserDeleteRead(r)
  <2>1. pc' \in [Reqs -> Steps] /\ loc' \in [Reqs -> Locals]
    BY <1>0, <1>6, GotoType, FinishType DEF UserDeleteRead, TypeOK, Steps
  <2> QED
    BY <1>6, <2>1 DEF UserDeleteRead, TypeOK
<1>7. CASE UserDelete(r)
  BY <1>7, FinishType DEF UserDelete, ConsumerCleared, Deletable, TypeOK, TokenStates
<1> QED
  BY <1>1, <1>2, <1>3, <1>4, <1>5, <1>6, <1>7 DEF AdminUsers

LEMMA TypeNext == TypeOK /\ [Next]_vars => TypeOK'
<1> SUFFICES ASSUME TypeOK, [Next]_vars PROVE TypeOK'
  OBVIOUS
<1>1. ASSUME NEW r \in Reqs, Signup(r) \/ Verify(r) \/ Invitation(r) \/ AdminUsers(r)
      PROVE TypeOK'
  BY <1>1, TypeSignup, TypeVerify, TypeInvitation, TypeAdminUsers
<1>2. ASSUME NEW i \in Invites, InviteExpire(i) PROVE TypeOK'
  BY <1>2 DEF InviteExpire, TypeOK
<1>3. ASSUME NEW u \in Users, TokenExpire(u) PROVE TypeOK'
  BY <1>3 DEF TokenExpire, TypeOK, TokenStates
<1>4. CASE Restart
  BY <1>4, BlankType DEF Restart, TypeOK, Steps
<1>5. CASE UNCHANGED vars
  BY <1>5 DEF vars, TypeOK
<1> QED
  BY <1>1, <1>2, <1>3, <1>4, <1>5 DEF Next

\* The state stays well formed: rows, used marks and roles belong to accounts
\* and invitations that exist, however requests interleave.
THEOREM TypeCorrect == Spec => []TypeOK
  BY TypeInit, TypeNext, PTL DEF Spec

-----------------------------------------------------------------------------
(* Which steps write which table. *)

LEMMA UsersWriters ==
  ASSUME [Next]_vars
  PROVE  \/ UNCHANGED <<users, everUser, email, founders>>
         \/ \E r \in Reqs, u \in Users : SignupCommit(r, u)
         \/ \E r \in Reqs : UserDelete(r)
<1>1. ASSUME NEW r \in Reqs, Signup(r)
      PROVE  UNCHANGED <<users, everUser, email, founders>> \/ \E u \in Users : SignupCommit(r, u)
  BY <1>1 DEF Signup, SignupInvite, SignupEmail, SignupRollback, SignupToken, SignupMail
<1>2. ASSUME NEW r \in Reqs, Verify(r) PROVE UNCHANGED <<users, everUser, email, founders>>
  BY <1>2 DEF Verify, VerifyRead, VerifyCommit
<1>3. ASSUME NEW r \in Reqs, Invitation(r) PROVE UNCHANGED <<users, everUser, email, founders>>
  BY <1>3 DEF Invitation, InviteCreateBegin, InviteCreate, InviteDeleteBegin,
              InviteDeleteRead, InviteDelete, Authenticate
<1>4. ASSUME NEW r \in Reqs, AdminUsers(r)
      PROVE  UNCHANGED <<users, everUser, email, founders>> \/ UserDelete(r)
  BY <1>4 DEF AdminUsers, UserPatchBegin, UserPatchRead, UserPatchCount, UserPatchWrite,
              UserDeleteBegin, UserDeleteRead, Authenticate
<1> QED
  BY <1>1, <1>2, <1>3, <1>4 DEF Next, InviteExpire, TokenExpire, Restart, vars

LEMMA RolesWriters ==
  ASSUME [Next]_vars
  PROVE  \/ UNCHANGED <<admins, disabled>>
         \/ \E r \in Reqs, u \in Users : SignupCommit(r, u)
         \/ \E r \in Reqs : UserPatchWrite(r) \/ UserDelete(r)
<1>1. ASSUME NEW r \in Reqs, Signup(r)
      PROVE  UNCHANGED <<admins, disabled>> \/ \E u \in Users : SignupCommit(r, u)
  BY <1>1 DEF Signup, SignupInvite, SignupEmail, SignupRollback, SignupToken, SignupMail
<1>2. ASSUME NEW r \in Reqs, Verify(r) PROVE UNCHANGED <<admins, disabled>>
  BY <1>2 DEF Verify, VerifyRead, VerifyCommit
<1>3. ASSUME NEW r \in Reqs, Invitation(r) PROVE UNCHANGED <<admins, disabled>>
  BY <1>3 DEF Invitation, InviteCreateBegin, InviteCreate, InviteDeleteBegin,
              InviteDeleteRead, InviteDelete, Authenticate
<1>4. ASSUME NEW r \in Reqs, AdminUsers(r)
      PROVE  UNCHANGED <<admins, disabled>> \/ UserPatchWrite(r) \/ UserDelete(r)
  BY <1>4 DEF AdminUsers, UserPatchBegin, UserPatchRead, UserPatchCount,
              UserDeleteBegin, UserDeleteRead, Authenticate
<1> QED
  BY <1>1, <1>2, <1>3, <1>4 DEF Next, InviteExpire, TokenExpire, Restart, vars

LEMMA InvitesWriters ==
  ASSUME [Next]_vars
  PROVE  \/ UNCHANGED <<invites, everInvite, creator, consumed, consumer, signups>>
         \/ \E r \in Reqs, u \in Users : SignupCommit(r, u)
         \/ \E r \in Reqs, i \in Invites : InviteCreate(r, i)
         \/ \E r \in Reqs : InviteDelete(r) \/ UserDelete(r)
<1> DEFINE Same == UNCHANGED <<invites, everInvite, creator, consumed, consumer, signups>>
<1>1. ASSUME NEW r \in Reqs, Signup(r)
      PROVE  Same \/ \E u \in Users : SignupCommit(r, u)
  BY <1>1 DEF Signup, SignupInvite, SignupEmail, SignupRollback, SignupToken, SignupMail
<1>2. ASSUME NEW r \in Reqs, Verify(r) PROVE Same
  BY <1>2 DEF Verify, VerifyRead, VerifyCommit
<1>3. ASSUME NEW r \in Reqs, Invitation(r)
      PROVE  Same \/ InviteDelete(r) \/ \E i \in Invites : InviteCreate(r, i)
  BY <1>3 DEF Invitation, InviteCreateBegin, InviteDeleteBegin, InviteDeleteRead, Authenticate
<1>4. ASSUME NEW r \in Reqs, AdminUsers(r) PROVE Same \/ UserDelete(r)
  BY <1>4 DEF AdminUsers, UserPatchBegin, UserPatchRead, UserPatchCount, UserPatchWrite,
              UserDeleteBegin, UserDeleteRead, Authenticate
<1> QED
  BY <1>1, <1>2, <1>3, <1>4 DEF Next, InviteExpire, TokenExpire, Restart, vars

-----------------------------------------------------------------------------
LEMMA EmailStep == TypeOK /\ UniqueEmail /\ [Next]_vars => UniqueEmail'
<1> SUFFICES ASSUME TypeOK, UniqueEmail, [Next]_vars PROVE UniqueEmail'
  OBVIOUS
<1>1. CASE UNCHANGED <<users, email>>
  BY <1>1 DEF UniqueEmail
<1>2. ASSUME NEW r \in Reqs, NEW u \in Users, SignupCommit(r, u) PROVE UniqueEmail'
  <2>1. /\ users' = users \cup {u} /\ u \notin users
        /\ email' = [email EXCEPT ![u] = loc[r].email]
        /\ \A v \in users : email[v] # loc[r].email
    BY <1>2 DEF SignupCommit, Insertable, EmailTaken, TypeOK
  <2> QED
    BY <2>1 DEF UniqueEmail, TypeOK
<1>3. ASSUME NEW r \in Reqs, UserDelete(r) PROVE UniqueEmail'
  BY <1>3 DEF UserDelete, UniqueEmail, TypeOK
<1> QED
  BY <1>1, <1>2, <1>3, UsersWriters

\* No interleaving of signups and deletions gives two accounts one address.
THEOREM EmailsUnique == Spec => []UniqueEmail
<1>1. Init => UniqueEmail
  BY DEF Init, UniqueEmail
<1> QED
  BY <1>1, TypeInit, TypeNext, EmailStep, PTL DEF Spec

-----------------------------------------------------------------------------
\* Rows of the table invitations: what is not in the table holds nothing, so an
\* invitation created later starts without a consumer or an account.
Rows ==
    /\ References /\ InviteLedger
    /\ \A i \in Invites \ invites : creator[i] = None /\ consumer[i] = None
    /\ \A i \in Invites \ everInvite : signups[i] = {}

LEMMA RowsInit == Init => Rows
  BY ConstantsAssumption DEF Init, Rows, References, InviteLedger

LEMMA RowsStep == TypeOK /\ Rows /\ [Next]_vars => Rows'
<1> SUFFICES ASSUME TypeOK, Rows, [Next]_vars PROVE Rows'
  OBVIOUS
<1> USE ConstantsAssumption DEF Rows, References, InviteLedger
<1>1. CASE /\ UNCHANGED <<invites, everInvite, creator, consumed, consumer, signups>>
           /\ UNCHANGED users
  BY <1>1
<1>2. ASSUME NEW r \in Reqs, NEW u \in Users, SignupCommit(r, u) PROVE Rows'
  <2>1. UNCHANGED <<invites, everInvite, creator>> /\ users' = users \cup {u}
    BY <1>2 DEF SignupCommit
  <2>2. CASE loc[r].inv \notin invites
    <3>1. UNCHANGED <<consumed, consumer, signups>>
      BY <1>2, <2>2 DEF SignupCommit, Consume
    <3> QED
      BY <2>1, <3>1
  <2>3. CASE loc[r].inv \in invites
    <3>1. /\ consumed' = consumed \cup {loc[r].inv}
          /\ consumer' = [consumer EXCEPT ![loc[r].inv] = u]
          /\ signups' = [signups EXCEPT ![loc[r].inv] = @ \cup {u}]
      BY <1>2, <2>3 DEF SignupCommit, Consume
    <3>2. \A i \in Invites : i # loc[r].inv =>
             /\ i \in consumed' <=> i \in consumed
             /\ consumer'[i] = consumer[i] /\ signups'[i] = signups[i]
      BY <3>1 DEF TypeOK
    <3>3. /\ loc[r].inv \in consumed' /\ consumer'[loc[r].inv] = u
          /\ u \in signups'[loc[r].inv]
      BY <2>3, <3>1 DEF TypeOK
    <3>4. References' /\ InviteLedger'
      BY <2>1, <3>2, <3>3 DEF TypeOK
    <3>5. /\ \A i \in Invites \ invites : creator'[i] = None /\ consumer'[i] = None
          /\ \A i \in Invites \ everInvite : signups'[i] = {}
      BY <2>1, <2>3, <3>2 DEF TypeOK
    <3> QED
      BY <2>1, <3>4, <3>5
  <2> QED
    BY <2>2, <2>3
<1>3. ASSUME NEW r \in Reqs, NEW i \in Invites, InviteCreate(r, i) PROVE Rows'
  BY <1>3 DEF InviteCreate, CreatorExists, TypeOK
<1>4. ASSUME NEW r \in Reqs, InviteDelete(r) PROVE Rows'
  BY <1>4 DEF InviteDelete, TypeOK
<1>5. ASSUME NEW r \in Reqs, UserDelete(r) PROVE Rows'
  BY <1>5 DEF UserDelete, ConsumerCleared, Deletable, TypeOK
<1> QED
  BY <1>1, <1>2, <1>3, <1>4, <1>5, UsersWriters, InvitesWriters

LEMMA RowsAlways == Spec => []Rows
  BY TypeInit, TypeNext, RowsInit, RowsStep, PTL DEF Spec

\* Foreign keys of the invitations hold after every step of every handler.
THEOREM ReferencesHold == Spec => []References
<1>1. Rows => References
  BY DEF Rows
<1> QED
  BY <1>1, RowsAlways, PTL

\* An invitation is marked used exactly when accounts came out of it.
THEOREM LedgerExact == Spec => []InviteLedger
<1>1. Rows => InviteLedger
  BY DEF Rows
<1> QED
  BY <1>1, RowsAlways, PTL

-----------------------------------------------------------------------------
\* What a handler in flight still knows from its earlier steps, whatever other
\* requests did meanwhile.
Progress ==
    \A r \in Reqs :
        /\ pc[r] \in {"up_count", "up_write"} => ~ LosesSelf(r)
        /\ pc[r] \in {"ud_read", "ud_delete"} => loc[r].target # loc[r].actor
        /\ pc[r] \in {"su_email", "su_commit"} =>
               /\ loc[r].email # None
               /\ "false" \notin SignupRequiresInvite => loc[r].inv # None

\* A step of one request leaves what the others keep alone.
LEMMA OthersStay ==
  ASSUME TypeOK, NEW s \in Reqs, NEW r \in Reqs \ {s},
         Signup(s) \/ Verify(s) \/ Invitation(s) \/ AdminUsers(s)
  PROVE  pc'[r] = pc[r] /\ loc'[r] = loc[r]
<1> USE DEF Goto, Finish, TypeOK
<1>1. CASE Signup(s)
  <2>1. ASSUME NEW e \in Emails, NEW i \in Invites \cup {None}, SignupInvite(s, e, i)
        PROVE  pc'[r] = pc[r] /\ loc'[r] = loc[r]
    BY <2>1 DEF SignupInvite
  <2>2. ASSUME NEW u \in Users, SignupCommit(s, u)
        PROVE  pc'[r] = pc[r] /\ loc'[r] = loc[r]
    BY <2>2 DEF SignupCommit
  <2> QED
    BY <1>1, <2>1, <2>2 DEF Signup, SignupEmail, SignupRollback, SignupToken, SignupMail
<1>2. CASE Verify(s)
  BY <1>2 DEF Verify, VerifyRead, VerifyCommit
<1>3. CASE Invitation(s)
  <2>1. ASSUME NEW a \in Users,
               \/ InviteCreateBegin(s, a)
               \/ \E i \in Invites : InviteDeleteBegin(s, a, i)
        PROVE  pc'[r] = pc[r] /\ loc'[r] = loc[r]
    BY <2>1 DEF InviteCreateBegin, InviteDeleteBegin, Authenticate
  <2> QED
    BY <1>3, <2>1 DEF Invitation, InviteCreate, InviteDeleteRead, InviteDelete
<1>4. CASE AdminUsers(s)
  BY <1>4 DEF AdminUsers, UserPatchBegin, UserPatchRead, UserPatchCount,
              UserPatchWrite, UserDeleteBegin, UserDeleteRead, UserDelete, Authenticate
<1> QED
  BY <1>1, <1>2, <1>3, <1>4

\* A request that is in flight after a step either slept through it or took it.
LEMMA StepTaken ==
  ASSUME TypeOK, [Next]_vars, NEW r \in Reqs, pc'[r] # "idle"
  PROVE  \/ pc'[r] = pc[r] /\ loc'[r] = loc[r]
         \/ Signup(r) \/ Verify(r) \/ Invitation(r) \/ AdminUsers(r)
<1>1. CASE \E s \in Reqs \ {r} : Signup(s) \/ Verify(s) \/ Invitation(s) \/ AdminUsers(s)
  BY <1>1, OthersStay
<1> QED
  BY <1>1 DEF Next, InviteExpire, TokenExpire, Restart, vars

LEMMA ProgressStep == TypeOK /\ Progress /\ [Next]_vars => Progress'
<1> SUFFICES ASSUME TypeOK, Progress, [Next]_vars, NEW r \in Reqs, pc'[r] # "idle"
             PROVE  /\ pc'[r] \in {"up_count", "up_write"} => ~ LosesSelf(r)'
                    /\ pc'[r] \in {"ud_read", "ud_delete"} => loc'[r].target # loc'[r].actor
                    /\ pc'[r] \in {"su_email", "su_commit"} =>
                           /\ loc'[r].email # None
                           /\ "false" \notin SignupRequiresInvite => loc'[r].inv # None
  BY DEF Progress
<1> USE ConstantsAssumption DEF Progress, LosesSelf, TypeOK, Locals, Goto, Finish, Blank
<1>1. CASE pc'[r] = pc[r] /\ loc'[r] = loc[r]
  BY <1>1
<1>2. CASE Signup(r)
  <2>1. ASSUME NEW e \in Emails, NEW i \in Invites \cup {None}, SignupInvite(r, e, i)
        PROVE  /\ pc'[r] = "su_email" /\ loc'[r].email # None
               /\ "false" \notin SignupRequiresInvite => loc'[r].inv # None
    BY <2>1 DEF SignupInvite
  <2>2. CASE SignupEmail(r)
    BY <2>2 DEF SignupEmail
  <2>3. ASSUME NEW u \in Users, SignupCommit(r, u) PROVE pc'[r] = "su_token"
    BY <2>3 DEF SignupCommit
  <2> QED
    BY <1>2, <2>1, <2>2, <2>3 DEF Signup, SignupRollback, SignupToken, SignupMail
<1>3. CASE Verify(r)
  BY <1>3 DEF Verify, VerifyRead, VerifyCommit
<1>4. CASE Invitation(r)
  <2>1. ASSUME NEW a \in Users, InviteCreateBegin(r, a) PROVE pc'[r] = "ic_create"
    BY <2>1 DEF InviteCreateBegin, Authenticate
  <2>2. ASSUME NEW a \in Users, NEW i \in Invites, InviteDeleteBegin(r, a, i)
        PROVE  pc'[r] = "id_read"
    BY <2>2 DEF InviteDeleteBegin, Authenticate
  <2>3. CASE InviteDeleteRead(r)
    BY <2>3 DEF InviteDeleteRead
  <2> QED
    BY <1>4, <2>1, <2>2, <2>3 DEF Invitation, InviteCreate, InviteDelete
<1>5. CASE AdminUsers(r)
  <2>1. ASSUME NEW a \in Users, NEW t \in Users, NEW p \in Patches, UserPatchBegin(r, a, t, p)
        PROVE  pc'[r] = "up_read"
    BY <2>1 DEF UserPatchBegin, Authenticate
  <2>2. ASSUME NEW a \in Users, NEW t \in Users, UserDeleteBegin(r, a, t)
        PROVE  pc'[r] = "ud_read" /\ loc'[r].target # loc'[r].actor
    BY <2>2 DEF UserDeleteBegin, Authenticate
  <2> QED
    BY <1>5, <2>1, <2>2 DEF AdminUsers, UserPatchRead, UserPatchCount, UserPatchWrite,
                            UserDeleteRead, UserDelete
<1> QED
  BY <1>1, <1>2, <1>3, <1>4, <1>5, StepTaken

LEMMA ProgressAlways == Spec => []Progress
<1>1. Init => Progress
  BY DEF Init, Progress
<1> QED
  BY <1>1, TypeInit, TypeNext, ProgressStep, PTL DEF Spec

\* With SIGNUP_REQUIRES_INVITE every account came from an invitation that was in
\* the table when the account was committed.
THEOREM InvitedOnly == Spec => []InviteOnly
<1>1. Init => InviteOnly
  BY ConstantsAssumption DEF Init, InviteOnly
<1>2. TypeOK /\ Progress /\ InviteOnly /\ [Next]_vars => InviteOnly'
  <2> SUFFICES ASSUME TypeOK, Progress, InviteOnly, [Next]_vars PROVE InviteOnly'
    OBVIOUS
  <2> USE DEF InviteOnly
  <2>1. CASE UNCHANGED <<everUser, everInvite, signups>>
    BY <2>1
  <2>2. ASSUME NEW r \in Reqs, NEW u \in Users, SignupCommit(r, u) PROVE InviteOnly'
    <3>1. /\ everUser' = everUser \cup {u} /\ everInvite' = everInvite
          /\ "false" \notin SignupRequiresInvite => loc[r].inv \in invites
      BY <2>2 DEF SignupCommit, Insertable, Progress
    <3>2. loc[r].inv \in invites =>
            signups' = [signups EXCEPT ![loc[r].inv] = @ \cup {u}]
      BY <2>2 DEF SignupCommit, Consume
    <3> QED
      BY <3>1, <3>2 DEF TypeOK
  <2>3. ASSUME NEW r \in Reqs, NEW i \in Invites, InviteCreate(r, i) PROVE InviteOnly'
    BY <2>3 DEF InviteCreate
  <2>4. ASSUME NEW r \in Reqs, InviteDelete(r) \/ UserDelete(r) PROVE InviteOnly'
    BY <2>4 DEF InviteDelete, UserDelete
  <2> QED
    BY <2>1, <2>2, <2>3, <2>4, UsersWriters, InvitesWriters
<1> QED
  BY <1>1, <1>2, TypeInit, TypeNext, ProgressAlways, PTL DEF Spec

\* An account stops being an enabled admin only by the request of another one.
THEOREM NoSelfLossHolds == Spec => NoSelfLoss
<1>1. TypeOK /\ Progress /\ [Next]_vars =>
        [\A u \in EnabledAdmins \ EnabledAdmins' :
           \E r \in Reqs : /\ pc[r] \in {"up_write", "ud_delete"} /\ pc'[r] = "idle"
                           /\ loc[r].target = u /\ loc[r].actor # u]_vars
  <2> SUFFICES ASSUME TypeOK, Progress, [Next]_vars,
                      NEW u \in EnabledAdmins \ EnabledAdmins'
               PROVE  \E r \in Reqs : /\ pc[r] \in {"up_write", "ud_delete"}
                                      /\ pc'[r] = "idle"
                                      /\ loc[r].target = u /\ loc[r].actor # u
    OBVIOUS
  <2> USE DEF EnabledAdmins
  <2>1. CASE UNCHANGED <<admins, disabled>>
    BY <2>1
  <2>2. ASSUME NEW r \in Reqs, NEW v \in Users, SignupCommit(r, v) PROVE FALSE
    BY <2>2 DEF SignupCommit
  <2>3. ASSUME NEW r \in Reqs, UserPatchWrite(r)
        PROVE  /\ pc[r] = "up_write" /\ pc'[r] = "idle"
               /\ loc[r].target = u /\ loc[r].actor # u
    BY <2>3 DEF UserPatchWrite, With, Progress, LosesSelf, Finish, Goto, TypeOK
  <2>4. ASSUME NEW r \in Reqs, UserDelete(r)
        PROVE  /\ pc[r] = "ud_delete" /\ pc'[r] = "idle"
               /\ loc[r].target = u /\ loc[r].actor # u
    BY <2>4 DEF UserDelete, Progress, Finish, Goto, TypeOK
  <2> QED
    BY <2>1, <2>2, <2>3, <2>4, RolesWriters
<1> QED
  BY <1>1, TypeCorrect, ProgressAlways, PTL DEF Spec, NoSelfLoss

-----------------------------------------------------------------------------
(* Four promises that hold as long as certain requests do not overlap; all   *)
(* others may. With the overlap TLC refutes each of them.                    *)

\* What a request checked when it started is still so while nobody else may undo it.
Rights == \A r \in Reqs : Removes(r) => loc[r].actor \in EnabledAdmins
Unused == \A r \in Reqs : Admits(r) => loc[r].inv \notin consumed
Undone == \A r \in Reqs : Withdraws(r) => loc[r].inv \notin consumed

Founded ==
    /\ everUser # {} => EnabledAdmins # {}
    /\ SeedAdmin # None => SeedAdmin \in everUser

\* How a request comes to take rights away, hold an invitation, or delete one.
LEMMA ComesToRemove ==
  ASSUME TypeOK, [Next]_vars, NEW r \in Reqs, Removes(r)'
  PROVE  \/ Removes(r) /\ loc'[r] = loc[r]
         \/ loc'[r].actor \in EnabledAdmins /\ UNCHANGED <<admins, disabled>>
<1> USE DEF Removes, TypeOK, Goto, Finish
<1>1. CASE pc'[r] = pc[r] /\ loc'[r] = loc[r]
  BY <1>1
<1>2. CASE Signup(r)
  <2>1. ASSUME NEW e \in Emails, NEW i \in Invites \cup {None}, SignupInvite(r, e, i)
        PROVE  pc'[r] = "su_email"
    BY <2>1 DEF SignupInvite
  <2>2. ASSUME NEW u \in Users, SignupCommit(r, u) PROVE pc'[r] \in {"su_token", "idle"}
    BY <2>2 DEF SignupCommit
  <2> QED
    BY <1>2, <2>1, <2>2 DEF Signup, SignupEmail, SignupRollback, SignupToken, SignupMail
<1>3. CASE Verify(r)
  BY <1>3 DEF Verify, VerifyRead, VerifyCommit
<1>4. CASE Invitation(r)
  <2>1. ASSUME NEW a \in Users, \/ InviteCreateBegin(r, a)
                                \/ \E i \in Invites : InviteDeleteBegin(r, a, i)
        PROVE  pc'[r] \in {"ic_create", "id_read"}
    BY <2>1 DEF InviteCreateBegin, InviteDeleteBegin, Authenticate
  <2> QED
    BY <1>4, <2>1 DEF Invitation, InviteCreate, InviteDeleteRead, InviteDelete
<1>5. CASE AdminUsers(r)
  <2>1. ASSUME NEW a \in Users, NEW t \in Users,
               UserDeleteBegin(r, a, t) \/ \E p \in Patches : UserPatchBegin(r, a, t, p)
        PROVE  loc'[r].actor \in EnabledAdmins /\ UNCHANGED <<admins, disabled>>
    <3>1. a \in EnabledAdmins /\ UNCHANGED <<admins, disabled>>
      BY <2>1 DEF UserPatchBegin, UserDeleteBegin, Authenticate, EnabledAdmins, userVars
    <3>2. ASSUME UserDeleteBegin(r, a, t) PROVE loc'[r].actor = a
      BY <3>2 DEF UserDeleteBegin, Authenticate, Blank
    <3>3. ASSUME NEW p \in Patches, UserPatchBegin(r, a, t, p) PROVE loc'[r].actor = a
      BY <3>3 DEF UserPatchBegin, Authenticate, Blank
    <3> QED
      BY <2>1, <3>1, <3>2, <3>3
  <2>2. CASE UserPatchRead(r) \/ UserPatchCount(r)
    BY <2>2 DEF UserPatchRead, UserPatchCount
  <2>3. CASE UserDeleteRead(r)
    BY <2>3 DEF UserDeleteRead
  <2>4. CASE UserPatchWrite(r) \/ UserDelete(r)
    BY <2>4 DEF UserPatchWrite, UserDelete
  <2> QED
    BY <1>5, <2>1, <2>2, <2>3, <2>4 DEF AdminUsers
<1> QED
  BY <1>1, <1>2, <1>3, <1>4, <1>5, StepTaken

LEMMA ComesToHold ==
  ASSUME TypeOK, [Next]_vars, NEW r \in Reqs
  PROVE  /\ Admits(r)' => \/ Admits(r) /\ loc'[r] = loc[r]
                          \/ loc'[r].inv \notin consumed /\ UNCHANGED consumed
         /\ Withdraws(r)' => \/ Withdraws(r) /\ loc'[r] = loc[r]
                             \/ loc'[r].inv \notin consumed /\ UNCHANGED consumed
<1> SUFFICES ASSUME pc'[r] \in {"su_email", "su_commit", "id_delete"}
             PROVE  \/ pc'[r] = pc[r] /\ loc'[r] = loc[r]
                    \/ Admits(r) /\ pc'[r] = "su_commit" /\ loc'[r] = loc[r]
                    \/ pc'[r] # "id_delete" /\ loc'[r].inv = None
                    \/ loc'[r].inv \notin consumed /\ UNCHANGED consumed
  BY DEF Admits, Withdraws
<1> USE DEF Admits, TypeOK, Locals, Goto, Finish
<1>1. CASE Signup(r)
  <2>1. ASSUME NEW e \in Emails, NEW i \in Invites \cup {None}, SignupInvite(r, e, i)
        PROVE  \/ pc'[r] # "id_delete" /\ loc'[r].inv = None
               \/ loc'[r].inv \notin consumed /\ UNCHANGED consumed
    BY <2>1 DEF SignupInvite, Usable, Blank, inviteVars
  <2>2. CASE SignupEmail(r)
    BY <2>2 DEF SignupEmail
  <2>3. ASSUME NEW u \in Users, SignupCommit(r, u) PROVE pc'[r] \in {"su_token", "idle"}
    BY <2>3 DEF SignupCommit
  <2> QED
    BY <1>1, <2>1, <2>2, <2>3 DEF Signup, SignupRollback, SignupToken, SignupMail
<1>2. CASE Verify(r)
  BY <1>2 DEF Verify, VerifyRead, VerifyCommit
<1>3. CASE Invitation(r)
  <2>1. ASSUME NEW a \in Users, \/ InviteCreateBegin(r, a)
                                \/ \E i \in Invites : InviteDeleteBegin(r, a, i)
        PROVE  pc'[r] \in {"ic_create", "id_read"}
    BY <2>1 DEF InviteCreateBegin, InviteDeleteBegin, Authenticate
  <2>2. CASE InviteDeleteRead(r)
    BY <2>2 DEF InviteDeleteRead, MayDelete, inviteVars
  <2> QED
    BY <1>3, <2>1, <2>2 DEF Invitation, InviteCreate, InviteDelete
<1>4. CASE AdminUsers(r)
  <2>1. ASSUME NEW a \in Users, NEW t \in Users,
               UserDeleteBegin(r, a, t) \/ \E p \in Patches : UserPatchBegin(r, a, t, p)
        PROVE  pc'[r] \in {"up_read", "ud_read"}
    BY <2>1 DEF UserPatchBegin, UserDeleteBegin, Authenticate
  <2> QED
    BY <1>4, <2>1 DEF AdminUsers, UserPatchRead, UserPatchCount, UserPatchWrite,
                      UserDeleteRead, UserDelete
<1> QED
  BY <1>1, <1>2, <1>3, <1>4, StepTaken

\* What a removal does to the enabled admins: nobody but its target is dropped.
LEMMA RemovalOf ==
  ASSUME TypeOK, [Next]_vars
  PROVE  \/ EnabledAdmins \subseteq EnabledAdmins'
         \/ \E q \in Reqs : /\ Removes(q) /\ pc'[q] = "idle"
                            /\ pc[q] \in {"up_write", "ud_delete"}
                            /\ UNCHANGED everUser
                            /\ EnabledAdmins \ {loc[q].target} \subseteq EnabledAdmins'
<1> USE DEF EnabledAdmins, TypeOK
<1>1. CASE UNCHANGED <<admins, disabled>>
  BY <1>1
<1>2. ASSUME NEW r \in Reqs, NEW u \in Users, SignupCommit(r, u)
      PROVE  EnabledAdmins \subseteq EnabledAdmins'
  BY <1>2 DEF SignupCommit
<1>3. ASSUME NEW q \in Reqs, UserPatchWrite(q)
      PROVE  \/ EnabledAdmins \subseteq EnabledAdmins'
             \/ /\ Removes(q) /\ pc'[q] = "idle" /\ pc[q] = "up_write" /\ UNCHANGED everUser
                /\ EnabledAdmins \ {loc[q].target} \subseteq EnabledAdmins'
  <2>1. pc[q] = "up_write" /\ pc'[q] = "idle" /\ UNCHANGED everUser
    BY <1>3 DEF UserPatchWrite, Finish, Goto
  <2>2. CASE {"demote", "disable"} \cap loc[q].patch # {}
    BY <1>3, <2>1, <2>2 DEF UserPatchWrite, With, Removes
  <2>3. CASE {"demote", "disable"} \cap loc[q].patch = {}
    BY <1>3, <2>3 DEF UserPatchWrite, With
  <2> QED
    BY <2>2, <2>3
<1>4. ASSUME NEW q \in Reqs, UserDelete(q)
      PROVE  /\ Removes(q) /\ pc'[q] = "idle" /\ pc[q] = "ud_delete" /\ UNCHANGED everUser
             /\ EnabledAdmins \ {loc[q].target} \subseteq EnabledAdmins'
  BY <1>4 DEF UserDelete, Removes, Finish, Goto
<1> QED
  BY <1>1, <1>2, <1>3, <1>4, RolesWriters

LEMMA RightsStep ==
  ASSUME TypeOK, Progress, OneRemoval, Rights, [Next]_vars
  PROVE  Rights'
<1> SUFFICES ASSUME NEW r \in Reqs, Removes(r)' PROVE loc'[r].actor \in EnabledAdmins'
  BY DEF Rights
<1>1. CASE loc'[r].actor \in EnabledAdmins /\ UNCHANGED <<admins, disabled>>
  BY <1>1 DEF EnabledAdmins
<1>2. CASE Removes(r) /\ loc'[r] = loc[r]
  <2>1. loc[r].actor \in EnabledAdmins
    BY <1>2 DEF Rights
  <2>2. ASSUME NEW q \in Reqs, Removes(q), pc'[q] = "idle" PROVE FALSE
    <3>1. q = r
      BY <1>2, <2>2 DEF OneRemoval
    <3> QED
      BY <2>2, <3>1 DEF Removes
  <2> QED
    BY <1>2, <2>1, <2>2, RemovalOf
<1> QED
  BY <1>1, <1>2, ComesToRemove

LEMMA FoundedStep ==
  ASSUME TypeOK, Progress, Rights, Founded, [Next]_vars
  PROVE  Founded'
<1>1. CASE UNCHANGED everUser /\ EnabledAdmins \subseteq EnabledAdmins'
  BY <1>1, ConstantsAssumption DEF Founded
<1>2. ASSUME NEW r \in Reqs, NEW u \in Users, SignupCommit(r, u) PROVE Founded'
  BY <1>2, ConstantsAssumption DEF SignupCommit, FirstUser, TypeOK, Founded, EnabledAdmins
<1>3. ASSUME NEW q \in Reqs, Removes(q), pc[q] \in {"up_write", "ud_delete"}, UNCHANGED everUser,
             EnabledAdmins \ {loc[q].target} \subseteq EnabledAdmins'
      PROVE  Founded'
  <2>1. loc[q].actor \in EnabledAdmins
    BY <1>3 DEF Rights
  <2>2. loc[q].actor # loc[q].target
    BY <1>3 DEF Progress, LosesSelf, Removes
  <2> QED
    BY <1>3, <2>1, <2>2, ConstantsAssumption DEF Founded
<1>4. UNCHANGED everUser \/ (\E r \in Reqs, u \in Users : SignupCommit(r, u))
  BY UsersWriters DEF UserDelete
<1> QED
  BY <1>1, <1>2, <1>3, <1>4, RemovalOf

LEMMA FoundedAlways == Spec /\ []OneRemoval => []Founded
<1>1. Init => Rights /\ Founded
  BY ConstantsAssumption DEF Init, Rights, Removes, Founded, EnabledAdmins
<1>2. TypeOK /\ Progress /\ OneRemoval /\ Rights /\ Founded /\ [Next]_vars => Rights' /\ Founded'
  BY RightsStep, FoundedStep
<1> QED
  BY <1>1, <1>2, TypeCorrect, ProgressAlways, PTL DEF Spec

\* If no two requests that take rights away overlap, an enabled admin remains,
\* whatever signups, promotions and restarts do meanwhile.
THEOREM AdminRemainsApart == Spec /\ []OneRemoval => []AdminRemains
<1>1. TypeOK /\ Founded => AdminRemains
  BY DEF TypeOK, Founded, AdminRemains
<1> QED
  BY <1>1, TypeCorrect, FoundedAlways, PTL

\* Under the same condition at most the first account ever becomes admin by
\* signing up, however many first signups overlap.
THEOREM SoleFounderApart == Spec /\ []OneRemoval => []SoleFounder
<1>1. Init => SoleFounder
  BY DEF Init, SoleFounder
<1>2. TypeOK /\ Founded /\ SoleFounder /\ [Next]_vars => SoleFounder'
  <2> SUFFICES ASSUME TypeOK, Founded, SoleFounder, [Next]_vars PROVE SoleFounder'
    OBVIOUS
  <2>1. UNCHANGED founders \/ \E r \in Reqs, u \in Users : SignupCommit(r, u)
    BY UsersWriters DEF UserDelete
  <2>2. ASSUME NEW r \in Reqs, NEW u \in Users, SignupCommit(r, u) PROVE SoleFounder'
    BY <2>2 DEF SignupCommit, FirstUser, Founded, EnabledAdmins, SoleFounder, TypeOK
  <2> QED
    BY <2>1, <2>2 DEF SoleFounder
<1> QED
  BY <1>1, <1>2, TypeCorrect, FoundedAlways, PTL DEF Spec

\* Only a signup that holds an invitation marks it used.
LEMMA MarkedBy ==
  ASSUME TypeOK, [Next]_vars, NEW i \in consumed' \ consumed
  PROVE  \E q \in Reqs : Admits(q) /\ loc[q].inv = i /\ pc'[q] \in {"su_token", "idle"}
<1>1. ASSUME NEW q \in Reqs, NEW u \in Users, SignupCommit(q, u)
      PROVE  Admits(q) /\ loc[q].inv = i /\ pc'[q] \in {"su_token", "idle"}
  <2>1. pc[q] = "su_commit" /\ pc'[q] \in {"su_token", "idle"}
    BY <1>1 DEF SignupCommit, Goto, Finish, TypeOK
  <2>2. loc[q].inv = i /\ i \in invites
    BY <1>1 DEF SignupCommit, Consume
  <2> QED
    BY <2>1, <2>2, ConstantsAssumption DEF Admits, TypeOK
<1>2. UNCHANGED consumed \/ (\E r \in Reqs, u \in Users : SignupCommit(r, u)) \/ consumed' \subseteq consumed
  BY InvitesWriters DEF InviteCreate, InviteDelete, UserDelete
<1> QED
  BY <1>1, <1>2

LEMMA UnusedStep ==
  ASSUME TypeOK, OneSignupPerInvite, Unused, [Next]_vars PROVE Unused'
<1> SUFFICES ASSUME NEW r \in Reqs, Admits(r)', loc'[r].inv \in consumed' PROVE FALSE
  BY DEF Unused
<1>1. Admits(r) /\ loc'[r] = loc[r] /\ loc'[r].inv \notin consumed
  BY ComesToHold DEF Unused
<1>2. PICK q \in Reqs : Admits(q) /\ loc[q].inv = loc[r].inv /\ pc'[q] \in {"su_token", "idle"}
  BY <1>1, MarkedBy
<1>3. q = r
  BY <1>1, <1>2 DEF OneSignupPerInvite
<1> QED
  BY <1>2, <1>3 DEF Admits

LEMMA UndoneStep ==
  ASSUME TypeOK, NoneWithdrawnInUse, Undone, [Next]_vars PROVE Undone'
<1> SUFFICES ASSUME NEW r \in Reqs, Withdraws(r)', loc'[r].inv \in consumed' PROVE FALSE
  BY DEF Undone
<1>1. Withdraws(r) /\ loc'[r] = loc[r] /\ loc'[r].inv \notin consumed
  BY ComesToHold DEF Undone
<1>2. PICK q \in Reqs : Admits(q) /\ loc[q].inv = loc[r].inv
  BY <1>1, MarkedBy
<1> QED
  BY <1>1, <1>2 DEF NoneWithdrawnInUse

\* If no two signups with one invitation overlap, it makes one account at most.
THEOREM InviteSingleUseApart == Spec /\ []OneSignupPerInvite => []InviteSingleUse
<1>1. Init => Unused /\ InviteSingleUse
  BY DEF Init, Unused, Admits, InviteSingleUse
<1>2. TypeOK /\ Rows /\ Unused /\ InviteSingleUse /\ [Next]_vars => InviteSingleUse'
  <2> SUFFICES ASSUME TypeOK, Rows, Unused, InviteSingleUse, [Next]_vars
               PROVE  InviteSingleUse'
    OBVIOUS
  <2> USE DEF InviteSingleUse
  <2>1. CASE UNCHANGED signups
    BY <2>1
  <2>2. ASSUME NEW r \in Reqs, NEW u \in Users, SignupCommit(r, u) PROVE InviteSingleUse'
    <3>1. CASE loc[r].inv \notin invites
      BY <2>2, <3>1 DEF SignupCommit, Consume
    <3>2. CASE loc[r].inv \in invites
      <4>1. loc[r].inv \notin consumed
        BY <2>2, <3>2, ConstantsAssumption DEF SignupCommit, Unused, Admits, TypeOK
      <4>2. signups[loc[r].inv] = {}
        BY <3>2, <4>1 DEF Rows, InviteLedger
      <4>3. signups' = [signups EXCEPT ![loc[r].inv] = {u}]
        BY <2>2, <3>2, <4>2 DEF SignupCommit, Consume
      <4> QED
        BY <4>3 DEF TypeOK
    <3> QED
      BY <3>1, <3>2
  <2>3. ASSUME NEW r \in Reqs, InviteDelete(r) \/ UserDelete(r) PROVE UNCHANGED signups
    BY <2>3 DEF InviteDelete, UserDelete
  <2>4. ASSUME NEW r \in Reqs, NEW i \in Invites, InviteCreate(r, i) PROVE UNCHANGED signups
    BY <2>4 DEF InviteCreate
  <2> QED
    BY <2>1, <2>2, <2>3, <2>4, InvitesWriters
<1>3. TypeOK /\ OneSignupPerInvite /\ Unused /\ [Next]_vars => Unused'
  BY UnusedStep
<1> QED
  BY <1>1, <1>2, <1>3, TypeCorrect, RowsAlways, PTL DEF Spec

\* If no signup with an invitation overlaps the last step of its deletion, a used
\* invitation is never deleted.
THEOREM UsedInviteKeptApart == Spec /\ []NoneWithdrawnInUse => UsedInviteKept
<1>1. Init => Undone
  BY DEF Init, Undone, Withdraws
<1>2. TypeOK /\ Undone /\ [Next]_vars => [\A i \in consumed : i \in invites']_vars
  <2> SUFFICES ASSUME TypeOK, Undone, [Next]_vars, NEW i \in consumed PROVE i \in invites'
    OBVIOUS
  <2>1. CASE UNCHANGED invites
    BY <2>1 DEF TypeOK
  <2>2. ASSUME NEW r \in Reqs, InviteDelete(r) PROVE i \in invites'
    BY <2>2 DEF InviteDelete, Undone, Withdraws, TypeOK
  <2>3. ASSUME NEW r \in Reqs, NEW j \in Invites, InviteCreate(r, j) PROVE i \in invites'
    BY <2>3 DEF InviteCreate, TypeOK
  <2>4. ASSUME NEW r \in Reqs, NEW u \in Users, SignupCommit(r, u) PROVE UNCHANGED invites
    BY <2>4 DEF SignupCommit
  <2>5. ASSUME NEW r \in Reqs, UserDelete(r) PROVE UNCHANGED invites
    BY <2>5 DEF UserDelete
  <2> QED
    BY <2>1, <2>2, <2>3, <2>4, <2>5, InvitesWriters
<1>3. TypeOK /\ NoneWithdrawnInUse /\ Undone /\ [Next]_vars => Undone'
  BY UndoneStep
<1> QED
  BY <1>1, <1>2, <1>3, TypeCorrect, PTL DEF Spec, UsedInviteKept

-----------------------------------------------------------------------------
\* E-mail tokens.  An account waiting for its token has none yet, and no other
\* request holds that account, so storing the token cannot undo its use.
Tokens ==
    /\ VerifiedByToken
    /\ SeedAdmin # None => SeedAdmin \in everUser /\ token[SeedAdmin] = "none"
    /\ \A u \in Users \ users : token[u] = "none"
    /\ \A r \in Reqs : pc[r] \in {"su_token", "su_mail", "ve_commit"} =>
                        loc[r].user \in everUser \ {SeedAdmin}
    /\ \A r \in Reqs : pc[r] = "su_token" => token[loc[r].user] = "none"
    /\ \A r, s \in Reqs :
          /\ pc[r] = "su_token" /\ r # s
          /\ pc[s] \in {"su_token", "su_mail", "ve_commit"}
          => loc[r].user # loc[s].user

LEMMA TokensInit == Init => Tokens
  BY ConstantsAssumption DEF Init, Tokens, VerifiedByToken

LEMMA TokensSignup ==
  ASSUME TypeOK, Tokens, NEW r \in Reqs, Signup(r) PROVE Tokens'
<1> USE ConstantsAssumption DEF Tokens, VerifiedByToken, Goto, Finish, TypeOK
<1>1. ASSUME NEW e \in Emails, NEW i \in Invites \cup {None}, SignupInvite(r, e, i)
      PROVE Tokens'
  <2>1. pc' = [pc EXCEPT ![r] = "su_email"] /\ \A s \in Reqs \ {r} : loc'[s] = loc[s]
    BY <1>1 DEF SignupInvite
  <2>2. UNCHANGED <<users, everUser, verified, token>>
    BY <1>1 DEF SignupInvite
  <2> QED
    BY <2>1, <2>2
<1>2. CASE SignupEmail(r) \/ SignupRollback(r)
  <2>1. /\ pc'[r] \in {"idle", "su_commit"}
        /\ \A s \in Reqs \ {r} : pc'[s] = pc[s] /\ loc'[s] = loc[s]
    BY <1>2 DEF SignupEmail, SignupRollback
  <2>2. UNCHANGED <<users, everUser, verified, token>>
    BY <1>2 DEF SignupEmail, SignupRollback
  <2> QED
    BY <2>1, <2>2
<1>3. ASSUME NEW u \in Users, SignupCommit(r, u) PROVE Tokens'
  <2>1. /\ pc'[r] \in {"idle", "su_token"} /\ (pc'[r] = "su_token" => loc'[r].user = u)
        /\ \A s \in Reqs \ {r} : pc'[s] = pc[s] /\ loc'[s] = loc[s]
    BY <1>3 DEF SignupCommit, Locals
  <2>2. /\ u \notin everUser /\ users' = users \cup {u} /\ everUser' = everUser \cup {u}
        /\ UNCHANGED <<verified, token>>
    BY <1>3 DEF SignupCommit
  <2>3. u # SeedAdmin /\ token[u] = "none"
    BY <2>2
  <2> QED
    BY <2>1, <2>2, <2>3
<1>4. CASE SignupToken(r)
  <2>1. /\ pc'[r] \in {"idle", "su_mail"} /\ (pc'[r] = "su_mail" => loc'[r] = loc[r])
        /\ \A s \in Reqs \ {r} : pc'[s] = pc[s] /\ loc'[s] = loc[s]
    BY <1>4 DEF SignupToken
  <2>2. /\ UNCHANGED <<users, everUser, verified>>
        /\ \/ UNCHANGED token
           \/ /\ loc[r].user \in users /\ pc[r] = "su_token"
              /\ token' = [token EXCEPT ![loc[r].user] = "stored"]
    BY <1>4 DEF SignupToken, AccountExists
  <2>3. CASE UNCHANGED token
    BY <1>4, <2>1, <2>2, <2>3 DEF SignupToken
  <2>4. CASE /\ loc[r].user \in users /\ pc[r] = "su_token"
             /\ token' = [token EXCEPT ![loc[r].user] = "stored"]
    <3>1. VerifiedByToken'
      BY <2>2, <2>4
    <3> QED
      BY <2>1, <2>2, <2>4, <3>1
  <2> QED
    BY <2>2, <2>3, <2>4
<1>5. CASE SignupMail(r)
  <2>1. /\ pc'[r] = "idle"
        /\ \A s \in Reqs \ {r} : pc'[s] = pc[s] /\ loc'[s] = loc[s]
    BY <1>5 DEF SignupMail
  <2>2. /\ UNCHANGED <<users, everUser, verified>>
        /\ \/ UNCHANGED token
           \/ /\ pc[r] = "su_mail" /\ token[loc[r].user] = "stored"
              /\ token' = [token EXCEPT ![loc[r].user] = "mailed"]
    BY <1>5 DEF SignupMail
  <2> QED
    BY <2>1, <2>2
<1> QED
  BY <1>1, <1>2, <1>3, <1>4, <1>5 DEF Signup

LEMMA TokensVerify ==
  ASSUME TypeOK, Tokens, NEW r \in Reqs, Verify(r) PROVE Tokens'
<1> USE ConstantsAssumption DEF Tokens, VerifiedByToken, Goto, Finish, TypeOK
<1>1. ASSUME NEW u \in Users, VerifyRead(r, u) PROVE Tokens'
  <2>1. /\ pc'[r] = "ve_commit" /\ loc'[r].user = u /\ token[u] = "mailed"
        /\ \A s \in Reqs \ {r} : pc'[s] = pc[s] /\ loc'[s] = loc[s]
    BY <1>1 DEF VerifyRead, Blank
  <2>2. UNCHANGED <<users, everUser, verified, token>>
    BY <1>1 DEF VerifyRead
  <2> QED
    BY <2>1, <2>2
<1>2. CASE VerifyCommit(r)
  <2>1. /\ pc[r] = "ve_commit" /\ pc'[r] = "idle" /\ UNCHANGED <<users, everUser>>
        /\ \A s \in Reqs \ {r} : pc'[s] = pc[s] /\ loc'[s] = loc[s]
    BY <1>2 DEF VerifyCommit
  <2>2. \/ UNCHANGED <<verified, token>>
        \/ /\ loc[r].user \in users /\ verified' = verified \cup {loc[r].user}
           /\ token' = [token EXCEPT ![loc[r].user] = "used"]
    BY <1>2 DEF VerifyCommit, AccountExists, ConsumeToken
  <2>3. VerifiedByToken'
    BY <2>1, <2>2
  <2> QED
    BY <2>1, <2>2, <2>3
<1> QED
  BY <1>1, <1>2 DEF Verify

\* The other handlers leave tokens alone, except that deleting a user takes its
\* token and its verification away together.
LEMMA TokensOther ==
  ASSUME TypeOK, Tokens, NEW r \in Reqs, Invitation(r) \/ AdminUsers(r) PROVE Tokens'
<1> USE ConstantsAssumption DEF Tokens, VerifiedByToken, Goto, Finish, TypeOK
<1>1. /\ pc'[r] \notin {"su_token", "su_mail", "ve_commit"}
      /\ \A s \in Reqs \ {r} : pc'[s] = pc[s] /\ loc'[s] = loc[s]
  <2>1. CASE Invitation(r)
    <3>1. ASSUME NEW a \in Users, InviteCreateBegin(r, a) PROVE pc'[r] = "ic_create"
      BY <3>1 DEF InviteCreateBegin, Authenticate
    <3>2. ASSUME NEW a \in Users, NEW i \in Invites, InviteDeleteBegin(r, a, i)
          PROVE  pc'[r] = "id_read"
      BY <3>2 DEF InviteDeleteBegin, Authenticate
    <3> QED
      BY <2>1, <3>1, <3>2, OthersStay
         DEF Invitation, InviteCreate, InviteDeleteRead, InviteDelete
  <2>2. CASE AdminUsers(r)
    <3>1. ASSUME NEW a \in Users, NEW t \in Users, NEW p \in Patches,
                 UserPatchBegin(r, a, t, p)
          PROVE  pc'[r] = "up_read"
      BY <3>1 DEF UserPatchBegin, Authenticate
    <3>2. ASSUME NEW a \in Users, NEW t \in Users, UserDeleteBegin(r, a, t)
          PROVE  pc'[r] = "ud_read"
      BY <3>2 DEF UserDeleteBegin, Authenticate
    <3> QED
      BY <2>2, <3>1, <3>2, OthersStay
         DEF AdminUsers, UserPatchRead, UserPatchCount, UserPatchWrite,
             UserDeleteRead, UserDelete
  <2> QED
    BY <2>1, <2>2
<1>2. UNCHANGED <<users, everUser, verified, token>> \/ UserDelete(r)
  BY DEF Invitation, InviteCreateBegin, InviteCreate, InviteDeleteBegin,
         InviteDeleteRead, InviteDelete, Authenticate,
         AdminUsers, UserPatchBegin, UserPatchRead, UserPatchCount, UserPatchWrite,
         UserDeleteBegin, UserDeleteRead
<1>3. CASE UNCHANGED <<users, everUser, verified, token>>
  BY <1>1, <1>3
<1>4. CASE UserDelete(r)
  <2>1. \/ UNCHANGED <<users, everUser, verified, token>>
        \/ \E t \in Users : /\ users' = users \ {t} /\ verified' = verified \ {t}
                            /\ token' = [token EXCEPT ![t] = "none"]
                            /\ UNCHANGED everUser
    BY <1>4 DEF UserDelete, ConsumerCleared, Deletable
  <2> QED
    BY <1>1, <2>1
<1> QED
  BY <1>2, <1>3, <1>4

\* An account is verified exactly when its token was consumed.
THEOREM VerifiedExactly == Spec => []VerifiedByToken
<1>1. TypeOK /\ Tokens /\ [Next]_vars => Tokens'
  <2> SUFFICES ASSUME TypeOK, Tokens, [Next]_vars PROVE Tokens'
    OBVIOUS
  <2> USE ConstantsAssumption DEF Tokens, VerifiedByToken, TypeOK
  <2>1. ASSUME NEW i \in Invites, InviteExpire(i) PROVE Tokens'
    BY <2>1 DEF InviteExpire
  <2>2. ASSUME NEW u \in Users, TokenExpire(u) PROVE Tokens'
    BY <2>2 DEF TokenExpire
  <2>3. CASE Restart
    BY <2>3 DEF Restart
  <2>4. CASE UNCHANGED vars
    BY <2>4 DEF vars
  <2> QED
    BY <2>1, <2>2, <2>3, <2>4, TokensSignup, TokensVerify, TokensOther DEF Next
<1>2. Tokens => VerifiedByToken
  BY DEF Tokens
<1> QED
  BY <1>1, <1>2, TokensInit, TypeCorrect, PTL DEF Spec

-----------------------------------------------------------------------------
(* The handlers implement the registry.                                      *)

\* A step that leaves the rows the registry shows alone.
Hidden == UNCHANGED <<users, email, admins, disabled, verified, everUser,
                      invites, creator, consumed, consumer, everInvite>>

LEMMA Writers ==
  ASSUME [Next]_vars
  PROVE  \/ Hidden
         \/ \E r \in Reqs : \/ \E u \in Users : SignupCommit(r, u)
                            \/ \E i \in Invites : InviteCreate(r, i)
                            \/ VerifyCommit(r) \/ InviteDelete(r)
                            \/ UserPatchWrite(r) \/ UserDelete(r)
<1> USE DEF Hidden
<1>1. ASSUME NEW r \in Reqs, Signup(r)
      PROVE  Hidden \/ \E u \in Users : SignupCommit(r, u)
  BY <1>1 DEF Signup, SignupInvite, SignupEmail, SignupRollback, SignupToken, SignupMail
<1>2. ASSUME NEW r \in Reqs, Verify(r) PROVE Hidden \/ VerifyCommit(r)
  BY <1>2 DEF Verify, VerifyRead
<1>3. ASSUME NEW r \in Reqs, Invitation(r)
      PROVE  Hidden \/ InviteDelete(r) \/ \E i \in Invites : InviteCreate(r, i)
  BY <1>3 DEF Invitation, InviteCreateBegin, InviteDeleteBegin, InviteDeleteRead, Authenticate
<1>4. ASSUME NEW r \in Reqs, AdminUsers(r)
      PROVE  Hidden \/ UserPatchWrite(r) \/ UserDelete(r)
  BY <1>4 DEF AdminUsers, UserPatchBegin, UserPatchRead, UserPatchCount,
              UserDeleteBegin, UserDeleteRead, Authenticate
<1> QED
  BY <1>1, <1>2, <1>3, <1>4 DEF Next, InviteExpire, TokenExpire, Restart, vars

\* What a request must still find true for the registry to be a strict one.
Current(strict) == strict => Rights /\ Unused /\ Undone

LEMMA RegistryInit == Init => Reg!Init
<1> SUFFICES ASSUME Init PROVE Reg!Init
  OBVIOUS
<1>1. \A u \in users : AccountRow(u) \in [address : Emails, admin : {TRUE}, enabled : {TRUE},
                                          verified : {TRUE}]
  <2> SUFFICES ASSUME NEW u \in users
               PROVE  AccountRow(u) \in [address : Emails, admin : {TRUE}, enabled : {TRUE},
                                          verified : {TRUE}]
    OBVIOUS
  <2>1. (u \in admins) = TRUE /\ (u \notin disabled) = TRUE /\ (u \in verified) = TRUE
    BY DEF Init
  <2>2. email[u] \in Emails
    BY ConstantsAssumption DEF Init
  <2> QED
    BY <2>1, <2>2 DEF AccountRow
<1>2. \A i \in invites : InvitationRow(i) = [by |-> SeedAdmin, used |-> FALSE, usedBy |-> None]
  <2> SUFFICES ASSUME NEW i \in invites
               PROVE  InvitationRow(i) = [by |-> SeedAdmin, used |-> FALSE, usedBy |-> None]
    OBVIOUS
  <2>1. (i \in consumed) = FALSE /\ creator[i] = SeedAdmin /\ consumer[i] = None
    BY ConstantsAssumption DEF Init
  <2> QED
    BY <2>1 DEF InvitationRow
<1>3. /\ users = {SeedAdmin} \ {None} /\ invites = IF SeedAdmin = None THEN {} ELSE {SeedInvite}
      /\ everUser = users /\ everInvite = invites
  BY DEF Init
<1> QED
  BY <1>1, <1>2, <1>3 DEF Reg!Init, AccountTable, InvitationTable

\* Rows that are not written stay, as tables.
LEMMA AccountStays ==
  ASSUME NEW u, email'[u] = email[u], u \in admins' <=> u \in admins,
         u \in disabled' <=> u \in disabled, u \in verified' <=> u \in verified
  PROVE  AccountRow(u)' = AccountRow(u)
<1>1. /\ (u \in admins') = (u \in admins) /\ (u \notin disabled') = (u \notin disabled)
      /\ (u \in verified') = (u \in verified)
  OBVIOUS
<1> QED
  BY <1>1 DEF AccountRow

LEMMA InvitationStays ==
  ASSUME NEW i, creator'[i] = creator[i], consumer'[i] = consumer[i],
         i \in consumed' <=> i \in consumed
  PROVE  InvitationRow(i)' = InvitationRow(i)
<1>1. (i \in consumed') = (i \in consumed)
  OBVIOUS
<1> QED
  BY <1>1 DEF InvitationRow

LEMMA AccountPut ==
  ASSUME NEW u, NEW row, users' = users \cup {u}, AccountRow(u)' = row,
         \A v \in users \ {u} : AccountRow(v)' = AccountRow(v)
  PROVE  AccountTable' = Reg!Put(AccountTable, u, row)
<1>1. Reg!Put(AccountTable, u, row) = [v \in users \cup {u} |-> IF v = u THEN row ELSE AccountRow(v)]
  BY DEF AccountTable, Reg!Put
<1>2. AccountTable' = [v \in users \cup {u} |-> IF v = u THEN row ELSE AccountRow(v)]
  BY DEF AccountTable
<1> QED
  BY <1>1, <1>2

LEMMA InvitationPut ==
  ASSUME NEW i, NEW row, invites' = invites \cup {i}, InvitationRow(i)' = row,
         \A j \in invites \ {i} : InvitationRow(j)' = InvitationRow(j)
  PROVE  InvitationTable' = Reg!Put(InvitationTable, i, row)
<1>1. Reg!Put(InvitationTable, i, row)
        = [j \in invites \cup {i} |-> IF j = i THEN row ELSE InvitationRow(j)]
  BY DEF InvitationTable, Reg!Put
<1>2. InvitationTable' = [j \in invites \cup {i} |-> IF j = i THEN row ELSE InvitationRow(j)]
  BY DEF InvitationTable
<1> QED
  BY <1>1, <1>2

LEMMA AccountsSame ==
  ASSUME UNCHANGED <<users, email, admins, disabled, verified>>
  PROVE  AccountTable' = AccountTable
  BY DEF AccountTable, AccountRow

LEMMA InvitationsSame ==
  ASSUME UNCHANGED <<invites, creator, consumed, consumer>>
  PROVE  InvitationTable' = InvitationTable
  BY DEF InvitationTable, InvitationRow

LEMMA CommitRegisters ==
  ASSUME TypeOK, Progress, NEW strict \in BOOLEAN, Current(strict),
         NEW r \in Reqs, NEW u \in Users, SignupCommit(r, u),
         NEW e, e = loc[r].email, NEW i, i = loc[r].inv
  PROVE  Reg!Register(u, e, i, strict)
<1>1. /\ pc[r] = "su_commit" /\ u \notin everUser /\ u \notin users
      /\ users' = users \cup {u} /\ everUser' = everUser \cup {u}
      /\ email' = [email EXCEPT ![u] = e]
      /\ admins' = IF users = {} THEN admins \cup {u} ELSE admins
      /\ UNCHANGED <<disabled, verified, invites, creator, everInvite>>
      /\ \A v \in users : email[v] # e
  BY DEF SignupCommit, Insertable, EmailTaken, FirstUser, TypeOK
<1>2. AccountTable' = Reg!Put(AccountTable, u, Reg!Row(e, users = {}, TRUE, FALSE))
  <2>1. AccountRow(u)' = Reg!Row(e, users = {}, TRUE, FALSE)
    <3>1. /\ email'[u] = e /\ (u \in admins') = (users = {})
          /\ (u \notin disabled') = TRUE /\ (u \in verified') = FALSE
      BY <1>1 DEF TypeOK
    <3> QED
      BY <3>1 DEF AccountRow, Reg!Row
  <2>2. \A v \in users \ {u} : AccountRow(v)' = AccountRow(v)
    BY <1>1, AccountStays DEF TypeOK
  <2> QED
    BY <1>1, <2>1, <2>2, AccountPut
<1>3. /\ DOMAIN AccountTable = users /\ \A v \in users : AccountTable[v].address = email[v]
      /\ DOMAIN InvitationTable = invites
      /\ \A j \in invites : /\ InvitationTable[j].used <=> j \in consumed
                            /\ InvitationTable[j].by = creator[j]
  BY DEF AccountTable, AccountRow, InvitationTable, InvitationRow
<1>4. CASE i = None
  <2>1. InvitationTable' = InvitationTable
    <3>1. UNCHANGED <<consumed, consumer>>
      BY <1>4, ConstantsAssumption DEF SignupCommit, Consume, TypeOK
    <3> QED
      BY <1>1, <3>1, InvitationsSame
  <2>2. "false" \in SignupRequiresInvite
    BY <1>1, <1>4 DEF Progress
  <2> QED
    BY <1>1, <1>2, <1>3, <1>4, <2>1, <2>2 DEF Reg!Register
<1>5. CASE i # None
  <2>1. /\ i \in invites /\ consumed' = consumed \cup {i}
        /\ consumer' = [consumer EXCEPT ![i] = u]
    BY <1>5 DEF SignupCommit, Insertable, Consume
  <2>2. strict => i \notin consumed
    BY <1>1, <1>5 DEF Current, Unused, Admits
  <2>3. InvitationRow(i)' = [by |-> creator[i], used |-> TRUE, usedBy |-> u]
    <3>1. (i \in consumed') = TRUE /\ consumer'[i] = u /\ creator'[i] = creator[i]
      BY <1>1, <2>1 DEF TypeOK
    <3> QED
      BY <3>1 DEF InvitationRow
  <2>4. \A j \in invites \ {i} : InvitationRow(j)' = InvitationRow(j)
    BY <1>1, <2>1, InvitationStays DEF TypeOK
  <2>5. InvitationTable' = Reg!Put(InvitationTable, i, [by |-> creator[i], used |-> TRUE, usedBy |-> u])
    <3>1. invites' = invites \cup {i}
      BY <1>1, <2>1
    <3> QED
      BY <2>3, <2>4, <3>1, InvitationPut
  <2> QED
    BY <1>1, <1>2, <1>3, <1>5, <2>1, <2>2, <2>5 DEF Reg!Register
<1> QED
  BY <1>4, <1>5

LEMMA RemovalGoverned ==
  ASSUME TypeOK, Progress, Rights, NEW r \in Reqs, Removes(r), pc[r] \in {"up_write", "ud_delete"}
  PROVE  Reg!Governed(loc[r].target)
<1>1. loc[r].actor \in users \ {loc[r].target} /\ loc[r].actor \in EnabledAdmins
  BY DEF Rights, EnabledAdmins, Progress, LosesSelf, Removes, TypeOK
<1> QED
  BY <1>1 DEF Reg!Governed, AccountTable, AccountRow, EnabledAdmins

LEMMA PatchRegrades ==
  ASSUME TypeOK, Progress, NEW strict \in BOOLEAN, Current(strict), NEW r \in Reqs,
         UserPatchWrite(r), NEW t \in users, t = loc[r].target
  PROVE  \E admin, enabled \in BOOLEAN : Reg!Regrade(t, admin, enabled, strict)
<1> DEFINE p == loc[r].patch
<1>1. /\ pc[r] = "up_write" /\ admins' = With(admins, t, "promote", "demote", p)
      /\ disabled' = With(disabled, t, "disable", "enable", p)
      /\ UNCHANGED <<users, email, verified, everUser, invites, creator, consumed, consumer, everInvite>>
  BY DEF UserPatchWrite
<1>2. AccountTable' = Reg!Put(AccountTable, t, Reg!Row(AccountTable[t].address, t \in admins',
                                                      t \notin disabled', AccountTable[t].verified))
  <2>1. \A v \in users \ {t} : AccountRow(v)' = AccountRow(v)
    <3>1. \A v \in users \ {t} : /\ v \in admins' <=> v \in admins
                                 /\ v \in disabled' <=> v \in disabled
      BY <1>1 DEF With
    <3> QED
      BY <1>1, <3>1, AccountStays
  <2>2. AccountTable[t].address = email[t] /\ AccountTable[t].verified = (t \in verified)
    BY DEF AccountTable, AccountRow
  <2>3. AccountRow(t)' = Reg!Row(AccountTable[t].address, t \in admins',
                                 t \notin disabled', AccountTable[t].verified)
    BY <1>1, <2>2 DEF AccountRow, Reg!Row
  <2>4. users' = users \cup {t}
    BY <1>1
  <2> QED
    BY <2>1, <2>3, <2>4, AccountPut
<1>3. InvitationTable' = InvitationTable /\ UNCHANGED <<everUser, everInvite>>
  BY <1>1, InvitationsSame
<1>4. /\ t \in DOMAIN AccountTable /\ AccountTable[t].admin = (t \in admins)
      /\ AccountTable[t].enabled = (t \notin disabled)
  BY DEF AccountTable, AccountRow
<1>5. strict => \/ /\ AccountTable[t].admin => (t \in admins')
                   /\ AccountTable[t].enabled => (t \notin disabled')
                \/ Reg!Governed(t)
  <2>1. CASE Removes(r)
    BY <1>1, <2>1, RemovalGoverned DEF Current
  <2>2. CASE {"demote", "disable"} \cap p = {}
    <3>1. (t \in admins => t \in admins') /\ (t \notin disabled => t \notin disabled')
      BY <1>1, <2>2 DEF With
    <3> QED
      BY <1>4, <3>1, Zenon
  <2> QED
    BY <1>1, <2>1, <2>2 DEF Removes
<1>6. Reg!Regrade(t, t \in admins', t \notin disabled', strict)
  BY <1>2, <1>3, <1>4, <1>5, Zenon DEF Reg!Regrade
<1>7. (t \in admins') \in BOOLEAN /\ (t \notin disabled') \in BOOLEAN
  OBVIOUS
<1> QED
  BY <1>6, <1>7, Zenon

LEMMA DeleteRemoves ==
  ASSUME TypeOK, Progress, NEW strict \in BOOLEAN, Current(strict), NEW r \in Reqs,
         UserDelete(r), NEW t, t = loc[r].target, Deletable(t)
  PROVE  Reg!Remove(t, strict)
<1>1. /\ pc[r] = "ud_delete" /\ t \in users /\ \A i \in invites : creator[i] # t
      /\ users' = users \ {t} /\ admins' = admins \ {t} /\ disabled' = disabled \ {t}
      /\ verified' = verified \ {t} /\ email' = [email EXCEPT ![t] = None]
      /\ consumer' = [i \in Invites |-> IF consumer[i] = t THEN None ELSE consumer[i]]
      /\ UNCHANGED <<everUser, invites, creator, consumed, everInvite>>
  BY DEF UserDelete, Deletable, ConsumerCleared
<1>2. strict => Reg!Governed(t)
  BY <1>1, RemovalGoverned DEF Current, Removes
<1>3. AccountTable' = Reg!Without(AccountTable, t)
  <2>1. \A v \in users \ {t} : AccountRow(v)' = AccountRow(v)
    BY <1>1, AccountStays DEF TypeOK
  <2>2. Reg!Without(AccountTable, t) = [v \in users \ {t} |-> AccountRow(v)]
    BY DEF AccountTable, Reg!Without
  <2>3. AccountTable' = [v \in users \ {t} |-> AccountRow(v)]
    BY <1>1, <2>1 DEF AccountTable
  <2> QED
    BY <2>2, <2>3
<1>4. InvitationTable' = [i \in DOMAIN InvitationTable |->
           IF InvitationTable[i].usedBy = t THEN [InvitationTable[i] EXCEPT !.usedBy = None]
           ELSE InvitationTable[i]]
  <2>1. \A i \in invites : InvitationRow(i)' =
           IF InvitationRow(i).usedBy = t THEN [InvitationRow(i) EXCEPT !.usedBy = None]
           ELSE InvitationRow(i)
    BY <1>1 DEF InvitationRow, TypeOK
  <2> QED
    BY <1>1, <2>1 DEF InvitationTable
<1>5. /\ t \in DOMAIN AccountTable /\ DOMAIN InvitationTable = invites
      /\ \A i \in invites : InvitationTable[i].by = creator[i]
  BY <1>1 DEF AccountTable, InvitationTable, InvitationRow
<1> QED
  BY <1>1, <1>2, <1>3, <1>4, <1>5 DEF Reg!Remove

LEMMA CreateInvites ==
  ASSUME TypeOK, Rows, NEW r \in Reqs, NEW i \in Invites, InviteCreate(r, i),
         NEW a \in users, a = loc[r].actor
  PROVE  Reg!Invite(a, i)
<1>1. /\ i \notin everInvite /\ invites' = invites \cup {i} /\ everInvite' = everInvite \cup {i}
      /\ creator' = [creator EXCEPT ![i] = a]
      /\ UNCHANGED <<users, email, admins, disabled, verified, everUser, consumed, consumer>>
  BY DEF InviteCreate, CreatorExists
<1>2. InvitationRow(i)' = [by |-> a, used |-> FALSE, usedBy |-> None]
  <2>1. (i \in consumed') = FALSE /\ consumer'[i] = None /\ creator'[i] = a
    BY <1>1 DEF TypeOK, Rows
  <2> QED
    BY <2>1 DEF InvitationRow
<1>3. \A j \in invites \ {i} : InvitationRow(j)' = InvitationRow(j)
  BY <1>1, InvitationStays DEF TypeOK
<1>4. InvitationTable' = Reg!Put(InvitationTable, i, [by |-> a, used |-> FALSE, usedBy |-> None])
  BY <1>1, <1>2, <1>3, InvitationPut
<1>5. AccountTable' = AccountTable /\ a \in DOMAIN AccountTable
  BY <1>1, AccountsSame DEF AccountTable
<1> QED
  BY <1>1, <1>4, <1>5 DEF Reg!Invite

LEMMA DeleteWithdraws ==
  ASSUME TypeOK, NEW strict \in BOOLEAN, Current(strict), NEW r \in Reqs, InviteDelete(r),
         NEW i \in invites, i = loc[r].inv
  PROVE  Reg!Withdraw(i, strict)
<1>1. /\ pc[r] = "id_delete" /\ invites' = invites \ {i} /\ consumed' = consumed \ {i}
      /\ creator' = [creator EXCEPT ![i] = None] /\ consumer' = [consumer EXCEPT ![i] = None]
      /\ UNCHANGED <<users, email, admins, disabled, verified, everUser, everInvite>>
  BY DEF InviteDelete
<1>2. InvitationTable' = Reg!Without(InvitationTable, i)
  <2>1. \A j \in invites \ {i} : InvitationRow(j)' = InvitationRow(j)
    BY <1>1, InvitationStays DEF TypeOK
  <2>2. Reg!Without(InvitationTable, i) = [j \in invites \ {i} |-> InvitationRow(j)]
    BY DEF InvitationTable, Reg!Without
  <2>3. InvitationTable' = [j \in invites \ {i} |-> InvitationRow(j)]
    BY <1>1, <2>1 DEF InvitationTable
  <2> QED
    BY <2>2, <2>3
<1>3. strict => ~ InvitationTable[i].used
  BY <1>1 DEF InvitationTable, InvitationRow, Current, Undone, Withdraws
<1>4. i \in DOMAIN InvitationTable /\ AccountTable' = AccountTable
  BY <1>1, AccountsSame DEF InvitationTable
<1> QED
  BY <1>1, <1>2, <1>3, <1>4 DEF Reg!Withdraw

LEMMA CommitConfirms ==
  ASSUME NEW r \in Reqs, VerifyCommit(r), NEW u \in users, u = loc[r].user
  PROVE  Reg!Confirm(u)
<1>1. /\ u \in users /\ verified' = verified \cup {u}
      /\ UNCHANGED <<users, email, admins, disabled, everUser, invites, creator, consumed,
                     consumer, everInvite>>
  BY DEF VerifyCommit, AccountExists
<1>2. \A v \in users \ {u} : AccountRow(v)' = AccountRow(v)
  BY <1>1, AccountStays
<1>3. /\ AccountTable[u].address = email[u] /\ AccountTable[u].admin = (u \in admins)
      /\ AccountTable[u].enabled = (u \notin disabled)
  BY DEF AccountTable, AccountRow
<1>4. AccountTable' = Reg!Put(AccountTable, u, Reg!Row(AccountTable[u].address, AccountTable[u].admin,
                                                      AccountTable[u].enabled, TRUE))
  <2>1. (u \in verified') = TRUE /\ users' = users \cup {u}
    BY <1>1
  <2>2. AccountRow(u)' = Reg!Row(AccountTable[u].address, AccountTable[u].admin,
                                 AccountTable[u].enabled, TRUE)
    BY <1>1, <1>3, <2>1 DEF AccountRow, Reg!Row
  <2> QED
    BY <1>2, <2>1, <2>2, AccountPut
<1>5. InvitationTable' = InvitationTable /\ u \in DOMAIN AccountTable
  BY <1>1, InvitationsSame DEF AccountTable
<1> QED
  BY <1>1, <1>4, <1>5 DEF Reg!Confirm

LEMMA RegistryStep ==
  ASSUME TypeOK, Progress, Rows, NEW strict \in BOOLEAN, Current(strict), [Next]_vars
  PROVE  [Reg!Next(strict)]_(Reg!vars)
<1>1. ASSUME Hidden PROVE UNCHANGED Reg!vars
  BY <1>1, AccountsSame, InvitationsSame DEF Hidden, Reg!vars
<1>2. ASSUME NEW r \in Reqs, NEW u \in Users, SignupCommit(r, u) PROVE Reg!Next(strict)
  <2>1. loc[r].email \in Emails /\ loc[r].inv \in Invites \cup {None}
    BY <1>2 DEF SignupCommit, Progress, TypeOK, Locals
  <2> QED
    BY <1>2, <2>1, CommitRegisters DEF Reg!Next
<1>3. ASSUME NEW r \in Reqs, VerifyCommit(r) PROVE Hidden \/ Reg!Next(strict)
  <2>1. CASE AccountExists(r)
    BY <1>3, <2>1, CommitConfirms DEF Reg!Next, AccountExists, TypeOK
  <2> QED
    BY <1>3, <2>1 DEF VerifyCommit, Hidden
<1>4. ASSUME NEW r \in Reqs, NEW i \in Invites, InviteCreate(r, i) PROVE Hidden \/ Reg!Next(strict)
  <2>1. CASE loc[r].actor \in users
    BY <1>4, <2>1, CreateInvites DEF Reg!Next, TypeOK
  <2> QED
    BY <1>4, <2>1 DEF InviteCreate, CreatorExists, Hidden
<1>5. ASSUME NEW r \in Reqs, InviteDelete(r) PROVE UNCHANGED Reg!vars \/ Reg!Next(strict)
  <2>1. CASE loc[r].inv \in invites
    BY <1>5, <2>1, DeleteWithdraws DEF Reg!Next, TypeOK
  <2>2. CASE loc[r].inv \notin invites
    <3>1. /\ UNCHANGED <<users, email, admins, disabled, verified, everUser, everInvite, invites>>
          /\ \A j \in invites : InvitationRow(j)' = InvitationRow(j)
      BY <1>5, <2>2, InvitationStays DEF InviteDelete, TypeOK
    <3> QED
      BY <3>1, AccountsSame DEF InvitationTable, Reg!vars
  <2> QED
    BY <2>1, <2>2
<1>6. ASSUME NEW r \in Reqs, UserPatchWrite(r) PROVE Hidden \/ Reg!Next(strict)
  <2>1. CASE loc[r].target \in users
    BY <1>6, <2>1, PatchRegrades DEF Reg!Next, TypeOK
  <2> QED
    BY <1>6, <2>1 DEF UserPatchWrite, Hidden
<1>7. ASSUME NEW r \in Reqs, UserDelete(r) PROVE Hidden \/ Reg!Next(strict)
  <2>1. CASE Deletable(loc[r].target)
    BY <1>7, <2>1, DeleteRemoves DEF Reg!Next, TypeOK, Deletable
  <2> QED
    BY <1>7, <2>1 DEF UserDelete, Hidden
<1> QED
  BY <1>1, <1>2, <1>3, <1>4, <1>5, <1>6, <1>7, Writers

\* Whatever the interleaving and the restarts, the tables of accounts and
\* invitations change as in a registry on which each request acts at once.
THEOREM RequestsActAtOnce == Spec => ActsAtOnce
<1>1. TypeOK /\ Progress /\ Rows /\ [Next]_vars => [Reg!Next(FALSE)]_(Reg!vars)
  BY RegistryStep DEF Current
<1> QED
  BY <1>1, RegistryInit, TypeCorrect, ProgressAlways, RowsAlways, PTL
  DEF Spec, ActsAtOnce, Reg!LaxSpec

\* If no requests overlap as Apart excludes, every check a request made is still
\* true when it acts: used invitations admit nobody and stay, and rights are taken
\* away by another enabled admin only.
THEOREM ChecksHoldApart == Spec /\ []Apart => ChecksHold
<1>1. Init => Rights /\ Unused /\ Undone
  BY DEF Init, Rights, Removes, Unused, Admits, Undone, Withdraws
<1>2. TypeOK /\ Progress /\ Apart /\ Rights /\ Unused /\ Undone /\ [Next]_vars
        => Rights' /\ Unused' /\ Undone'
  BY RightsStep, UnusedStep, UndoneStep DEF Apart
<1>3. TypeOK /\ Progress /\ Rows /\ Rights /\ Unused /\ Undone /\ [Next]_vars
        => [Reg!Next(TRUE)]_(Reg!vars)
  BY RegistryStep DEF Current
<1> QED
  BY <1>1, <1>2, <1>3, RegistryInit, TypeCorrect, ProgressAlways, RowsAlways, PTL
  DEF Spec, ChecksHold, Reg!StrictSpec
-----------------------------------------------------------------------------
(* What the registry's promise is worth, without a look at any handler.      *)

Listed == /\ DOMAIN AccountTable \subseteq everUser
          /\ \A u, v \in DOMAIN AccountTable :
               AccountTable[u].address = AccountTable[v].address => u = v
Linked == \A i \in DOMAIN InvitationTable :
            /\ InvitationTable[i].by \in DOMAIN AccountTable
            /\ InvitationTable[i].usedBy \in DOMAIN AccountTable \cup {None}
Led    == DOMAIN AccountTable # {} =>
            \E a \in DOMAIN AccountTable : AccountTable[a].admin /\ AccountTable[a].enabled

LEMMA RegistryBegins == Reg!Init => Listed /\ Linked /\ Led
<1> SUFFICES ASSUME Reg!Init PROVE Listed /\ Linked /\ Led
  OBVIOUS
<1>1. /\ DOMAIN AccountTable = {SeedAdmin} \ {None}
      /\ \A u \in DOMAIN AccountTable : AccountTable[u].admin = TRUE /\ AccountTable[u].enabled = TRUE
      /\ DOMAIN AccountTable \subseteq everUser
  BY DEF Reg!Init
<1>2. /\ DOMAIN InvitationTable = IF SeedAdmin = None THEN {} ELSE {SeedInvite}
      /\ \A i \in DOMAIN InvitationTable :
           InvitationTable[i].by = SeedAdmin /\ InvitationTable[i].usedBy = None
  BY DEF Reg!Init
<1> QED
  BY <1>1, <1>2 DEF Listed, Linked, Led

\* An account is written over, its address kept.
LEMMA Rewritten ==
  ASSUME Listed, Linked, NEW u \in DOMAIN AccountTable, NEW row,
         row.address = AccountTable[u].address,
         AccountTable' = Reg!Put(AccountTable, u, row),
         UNCHANGED <<InvitationTable, everUser>>
  PROVE  Listed' /\ Linked'
<1>1. /\ DOMAIN AccountTable' = DOMAIN AccountTable
      /\ \A v \in DOMAIN AccountTable : AccountTable'[v].address = AccountTable[v].address
  BY DEF Reg!Put
<1> QED
  BY <1>1 DEF Listed, Linked

LEMMA RegistryKeeps ==
  ASSUME NEW strict \in BOOLEAN, Listed, Linked, [Reg!Next(strict)]_(Reg!vars)
  PROVE  /\ Listed' /\ Linked'
         /\ strict /\ Led => Led'
<1> DEFINE Goal == Listed' /\ Linked' /\ (strict /\ Led => Led')
<1>1. ASSUME UNCHANGED Reg!vars PROVE Goal
  BY <1>1 DEF Reg!vars, Listed, Linked, Led
<1>2. ASSUME NEW u \in Users, NEW e \in Emails, NEW i \in Invites \cup {None},
             Reg!Register(u, e, i, strict)
      PROVE  Goal
  <2> DEFINE row == Reg!Row(e, DOMAIN AccountTable = {}, TRUE, FALSE)
  <2>1. row.address = e /\ row.admin = (DOMAIN AccountTable = {}) /\ row.enabled = TRUE
    BY DEF Reg!Row
  <2>2. /\ u \notin everUser /\ AccountTable' = Reg!Put(AccountTable, u, row)
        /\ \A v \in DOMAIN AccountTable : AccountTable[v].address # e
        /\ everUser' = everUser \cup {u}
    BY <1>2 DEF Reg!Register
  <2> HIDE DEF row
  <2>3. /\ DOMAIN AccountTable' = DOMAIN AccountTable \cup {u} /\ u \notin DOMAIN AccountTable
        /\ AccountTable'[u] = row
        /\ \A v \in DOMAIN AccountTable : AccountTable'[v] = AccountTable[v]
    BY <2>2 DEF Reg!Put, Listed
  <2>4. Listed'
    BY <2>1, <2>2, <2>3 DEF Listed
  <2>5. Linked'
    <3>1. CASE i = None
      BY <1>2, <2>3, <3>1 DEF Reg!Register, Linked
    <3>2. CASE i # None
      <4> DEFINE new == [by |-> InvitationTable[i].by, used |-> TRUE, usedBy |-> u]
      <4>1. new.by = InvitationTable[i].by /\ new.usedBy = u
        OBVIOUS
      <4>2. i \in DOMAIN InvitationTable /\ InvitationTable' = Reg!Put(InvitationTable, i, new)
        BY <1>2, <3>2 DEF Reg!Register
      <4> HIDE DEF new
      <4>3. /\ DOMAIN InvitationTable' = DOMAIN InvitationTable /\ InvitationTable'[i] = new
            /\ \A j \in DOMAIN InvitationTable \ {i} : InvitationTable'[j] = InvitationTable[j]
        BY <4>2 DEF Reg!Put
      <4> QED
        BY <2>3, <4>1, <4>2, <4>3 DEF Linked
    <3> QED
      BY <3>1, <3>2
  <2>6. Led => Led'
    BY <2>1, <2>3 DEF Led
  <2> QED
    BY <2>4, <2>5, <2>6
<1>3. ASSUME NEW u \in Users, Reg!Confirm(u) PROVE Goal
  <2> DEFINE row == Reg!Row(AccountTable[u].address, AccountTable[u].admin,
                            AccountTable[u].enabled, TRUE)
  <2>1. /\ row.address = AccountTable[u].address /\ row.admin = AccountTable[u].admin
        /\ row.enabled = AccountTable[u].enabled
    BY DEF Reg!Row
  <2>2. /\ u \in DOMAIN AccountTable /\ AccountTable' = Reg!Put(AccountTable, u, row)
        /\ UNCHANGED <<InvitationTable, everUser>>
    BY <1>3 DEF Reg!Confirm
  <2> HIDE DEF row
  <2>3. Listed' /\ Linked'
    BY <2>1, <2>2, Rewritten
  <2>4. Led => Led'
    BY <2>1, <2>2 DEF Reg!Put, Led
  <2> QED
    BY <2>3, <2>4
<1>4. ASSUME NEW u \in Users, NEW admin \in BOOLEAN, NEW enabled \in BOOLEAN,
             Reg!Regrade(u, admin, enabled, strict)
      PROVE  Goal
  <2> DEFINE row == Reg!Row(AccountTable[u].address, admin, enabled, AccountTable[u].verified)
  <2>1. row.address = AccountTable[u].address /\ row.admin = admin /\ row.enabled = enabled
    BY DEF Reg!Row
  <2>2. /\ u \in DOMAIN AccountTable /\ AccountTable' = Reg!Put(AccountTable, u, row)
        /\ UNCHANGED <<InvitationTable, everUser>>
        /\ strict => \/ (AccountTable[u].admin => admin) /\ (AccountTable[u].enabled => enabled)
                     \/ Reg!Governed(u)
    BY <1>4 DEF Reg!Regrade
  <2> HIDE DEF row
  <2>3. Listed' /\ Linked'
    BY <2>1, <2>2, Rewritten
  <2>4. ASSUME strict, Led PROVE Led'
    <3>1. /\ DOMAIN AccountTable' = DOMAIN AccountTable /\ AccountTable'[u] = row
          /\ \A v \in DOMAIN AccountTable \ {u} : AccountTable'[v] = AccountTable[v]
      BY <2>2 DEF Reg!Put
    <3>2. CASE Reg!Governed(u)
      BY <3>1, <3>2 DEF Reg!Governed, Led
    <3>3. CASE (AccountTable[u].admin => admin) /\ (AccountTable[u].enabled => enabled)
      <4>1. PICK a \in DOMAIN AccountTable : AccountTable[a].admin /\ AccountTable[a].enabled
        BY <2>2, <2>4 DEF Led
      <4>2. AccountTable'[a].admin /\ AccountTable'[a].enabled
        BY <2>1, <3>1, <3>3, <4>1
      <4> QED
        BY <3>1, <4>1, <4>2 DEF Led
    <3> QED
      BY <2>2, <2>4, <3>2, <3>3
  <2> QED
    BY <2>3, <2>4
<1>5. ASSUME NEW u \in Users, Reg!Remove(u, strict) PROVE Goal
  <2>1. /\ AccountTable' = Reg!Without(AccountTable, u) /\ UNCHANGED everUser
        /\ strict => Reg!Governed(u)
        /\ \A i \in DOMAIN InvitationTable : InvitationTable[i].by # u
        /\ InvitationTable' = [i \in DOMAIN InvitationTable |->
              IF InvitationTable[i].usedBy = u THEN [InvitationTable[i] EXCEPT !.usedBy = None]
              ELSE InvitationTable[i]]
    BY <1>5 DEF Reg!Remove
  <2>2. /\ DOMAIN AccountTable' = DOMAIN AccountTable \ {u}
        /\ \A v \in DOMAIN AccountTable \ {u} : AccountTable'[v] = AccountTable[v]
    BY <2>1 DEF Reg!Without
  <2>3. /\ DOMAIN InvitationTable' = DOMAIN InvitationTable
        /\ \A i \in DOMAIN InvitationTable :
             /\ InvitationTable'[i].by = InvitationTable[i].by
             /\ InvitationTable'[i].usedBy =
                  IF InvitationTable[i].usedBy = u THEN None ELSE InvitationTable[i].usedBy
    <3>1. DOMAIN InvitationTable' = DOMAIN InvitationTable
      BY <2>1
    <3>2. ASSUME NEW i \in DOMAIN InvitationTable
          PROVE  /\ InvitationTable'[i].by = InvitationTable[i].by
                 /\ InvitationTable'[i].usedBy =
                      IF InvitationTable[i].usedBy = u THEN None ELSE InvitationTable[i].usedBy
      <4>1. InvitationTable[i] = InvitationRow(i)
        BY DEF InvitationTable
      <4> QED
        BY <2>1, <4>1 DEF InvitationRow
    <3> QED
      BY <3>1, <3>2
  <2>4. Listed' /\ Linked'
    BY <2>1, <2>2, <2>3 DEF Listed, Linked
  <2>5. strict => Led'
    BY <2>1, <2>2 DEF Led, Reg!Governed
  <2> QED
    BY <2>4, <2>5
<1>6. ASSUME NEW i \in Invites, Reg!Withdraw(i, strict) PROVE Goal
  <2>1. /\ InvitationTable' = Reg!Without(InvitationTable, i)
        /\ UNCHANGED <<AccountTable, everUser>>
    BY <1>6 DEF Reg!Withdraw
  <2>2. /\ DOMAIN InvitationTable' = DOMAIN InvitationTable \ {i}
        /\ \A j \in DOMAIN InvitationTable \ {i} : InvitationTable'[j] = InvitationTable[j]
    BY <2>1 DEF Reg!Without
  <2> QED
    BY <2>1, <2>2 DEF Listed, Linked, Led
<1>7. ASSUME NEW i \in Invites, NEW a \in Users, Reg!Invite(a, i) PROVE Goal
  <2> DEFINE new == [by |-> a, used |-> FALSE, usedBy |-> None]
  <2>1. new.by = a /\ new.usedBy = None
    OBVIOUS
  <2>2. /\ a \in DOMAIN AccountTable /\ InvitationTable' = Reg!Put(InvitationTable, i, new)
        /\ UNCHANGED <<AccountTable, everUser>>
    BY <1>7 DEF Reg!Invite
  <2> HIDE DEF new
  <2>3. /\ DOMAIN InvitationTable' = DOMAIN InvitationTable \cup {i} /\ InvitationTable'[i] = new
        /\ \A j \in DOMAIN InvitationTable \ {i} : InvitationTable'[j] = InvitationTable[j]
    BY <2>2 DEF Reg!Put
  <2> QED
    BY <2>1, <2>2, <2>3 DEF Listed, Linked, Led
<1> QED
  BY <1>1, <1>2, <1>3, <1>4, <1>5, <1>6, <1>7 DEF Reg!Next

\* What the registry says of its tables is what the properties say of the rows.
LEMMA TablesMean ==
  /\ Listed => UniqueEmail
  /\ Linked => References
  /\ Led => AdminRemains
<1>1. /\ DOMAIN AccountTable = users /\ DOMAIN InvitationTable = invites
      /\ \A u \in users : /\ AccountTable[u].address = email[u]
                          /\ AccountTable[u].admin <=> u \in admins
                          /\ AccountTable[u].enabled <=> u \notin disabled
      /\ \A i \in invites : /\ InvitationTable[i].by = creator[i]
                            /\ InvitationTable[i].usedBy = consumer[i]
  BY DEF AccountTable, InvitationTable, AccountRow, InvitationRow
<1> QED
  BY <1>1 DEF Listed, UniqueEmail, Linked, References, Led, AdminRemains, EnabledAdmins

\* The lax promise alone, which is kept under every interleaving, gives unique
\* addresses and whole references (schema.prisma:21,60,62): whoever keeps it,
\* by whatever steps, keeps these.
THEOREM LaxIsWhole == ActsAtOnce => [](UniqueEmail /\ References)
<1>1. Listed /\ Linked /\ [Reg!Next(FALSE)]_(Reg!vars) => Listed' /\ Linked'
  BY RegistryKeeps
<1> QED
  BY <1>1, RegistryBegins, TablesMean, PTL DEF ActsAtOnce, Reg!LaxSpec

\* The strict promise adds that the platform always has an enabled admin
\* (admin-users.ts:48), and is a lax one.
THEOREM StrictIsGoverned ==
  ChecksHold => ActsAtOnce /\ [](UniqueEmail /\ References /\ AdminRemains)
<1>1. Listed /\ Linked /\ Led /\ [Reg!Next(TRUE)]_(Reg!vars) => Listed' /\ Linked' /\ Led'
  BY RegistryKeeps
<1>2. [Reg!Next(TRUE)]_(Reg!vars) => [Reg!Next(FALSE)]_(Reg!vars)
  <2>1. ASSUME NEW u \in Users, NEW e \in Emails, NEW i \in Invites \cup {None},
               Reg!Register(u, e, i, TRUE)
        PROVE  Reg!Register(u, e, i, FALSE)
    BY <2>1 DEF Reg!Register
  <2>2. ASSUME NEW u \in Users, Reg!Remove(u, TRUE) PROVE Reg!Remove(u, FALSE)
    BY <2>2 DEF Reg!Remove
  <2>3. ASSUME NEW u \in Users, NEW admin \in BOOLEAN, NEW enabled \in BOOLEAN,
               Reg!Regrade(u, admin, enabled, TRUE)
        PROVE  Reg!Regrade(u, admin, enabled, FALSE)
    BY <2>3 DEF Reg!Regrade
  <2>4. ASSUME NEW i \in Invites, Reg!Withdraw(i, TRUE) PROVE Reg!Withdraw(i, FALSE)
    BY <2>4 DEF Reg!Withdraw
  <2> QED
    BY <2>1, <2>2, <2>3, <2>4 DEF Reg!Next
<1> QED
  BY <1>1, <1>2, RegistryBegins, TablesMean, PTL
  DEF ActsAtOnce, ChecksHold, Reg!LaxSpec, Reg!StrictSpec
=============================================================================
