------------------------------ MODULE Sessions ------------------------------
(***************************************************************************)
(* Sessions and the credentials that open them: the store behind           *)
(* express-session, loadCurrentUser, sign-in, sign-out, the session of a   *)
(* signup, password reset and password change.                             *)
(*                                                                         *)
(* Every request loads the session its cookie names, does its work, and    *)
(* ends by touching that session or, if its userId changed, by saving it.  *)
(* A request that its handler refuses does no more than that.              *)
(***************************************************************************)
EXTENDS Naturals, FiniteSets

CONSTANTS
    Users,   \* pool of user ids
    Sids,    \* pool of session ids (never reused)
    Tokens,  \* pool of reset tokens
    Reqs,    \* requests in flight at once
    None,    \* absent value
    Seeded   \* accounts that exist at the start

ASSUME SessionsAssumption ==
    /\ None \notin Users /\ None \notin Sids /\ None \notin Tokens
    /\ Seeded \subseteq Users

VARIABLES
    accounts, everUser, disabled, \* table users
    password,       \* the reset (by number) behind the current password hash
    rows, owner, epoch, stale,    \* table sessions: userId, the password it was
                                  \* opened with, expiresAt has passed
    everSid,        \* session ids handed out
    tok, tokOf,     \* table password_resets
    pc, loc,        \* requests in flight
    dropping,       \* deletes of expired sessions nobody awaits
    resets,         \* history: resets of each account's password
    ended,          \* history: sessions removed or taken over, with their user
    overtaken       \* history: accounts reset while an older credential was in use

userVars  == <<accounts, everUser, disabled, password>>
rowVars   == <<rows, owner, epoch, stale, everSid>>
tokVars   == <<tok, tokOf>>
history   == <<resets, ended, overtaken>>
vars      == <<userVars, rowVars, tokVars, pc, loc, dropping, history>>

\* "run": its session is loaded and the handler is about to start.
PCs == {"idle", "user", "run", "si_regen", "rr_create", "rc_commit", "mp_write", "end"}

Blank == [sid |-> None, user |-> None, dirty |-> FALSE,
          subject |-> None, epoch |-> 0, token |-> None]
Locals == [sid : Sids \cup {None}, user : Users \cup {None}, dirty : BOOLEAN,
           subject : Users \cup {None}, epoch : Nat, token : Tokens \cup {None}]

\* "mailed": the mail's reader can still use it; "void": used, expired or lost.
TokenStates == {"none", "mailed", "void"}

Init ==
    /\ accounts = Seeded /\ everUser = Seeded /\ disabled = {}
    /\ password = [u \in Users |-> 0]
    /\ rows = {} /\ stale = {} /\ everSid = {}
    /\ owner = [s \in Sids |-> None] /\ epoch = [s \in Sids |-> 0]
    /\ tok = [t \in Tokens |-> "none"] /\ tokOf = [t \in Tokens |-> None]
    /\ pc = [r \in Reqs |-> "idle"] /\ loc = [r \in Reqs |-> Blank]
    /\ dropping = {}
    /\ resets = [u \in Users |-> 0] /\ ended = {} /\ overtaken = {}

Goto(r, step, locals) ==
    /\ pc' = [pc EXCEPT ![r] = step]
    /\ loc' = [loc EXCEPT ![r] = locals]
Finish(r) == Goto(r, "idle", Blank)
End(r) == Goto(r, "end", [Blank EXCEPT !.sid = loc[r].sid, !.dirty = loc[r].dirty])
Ending(r) == pc[r] \in {"run", "end"}

Remove(S) ==
    /\ rows' = rows \ S /\ stale' = stale \ S
    /\ owner' = [s \in Sids |-> IF s \in S THEN None ELSE owner[s]]
    /\ epoch' = [s \in Sids |-> IF s \in S THEN 0 ELSE epoch[s]]
    /\ ended' = ended \cup {<<s, owner[s]>> : s \in {x \in S \cap rows : owner[x] # None}}
    /\ UNCHANGED everSid

-----------------------------------------------------------------------------
(* express-session with PrismaSessionStore, and loadCurrentUser *)

\* c is a cookie the server once set, or no cookie.  An absent or expired session
\* gives the request a new, unsaved one.
Load(r, c) ==
    /\ pc[r] = "idle" /\ c \in everSid \cup {None}
    /\ IF c \notin rows \ stale THEN Goto(r, "run", Blank)
       ELSE IF owner[c] = None THEN Goto(r, "run", [Blank EXCEPT !.sid = c])
       ELSE Goto(r, "user", [Blank EXCEPT !.sid = c, !.user = owner[c]])
    /\ dropping' = IF c \in stale THEN dropping \cup {c} ELSE dropping
    /\ UNCHANGED <<userVars, rowVars, tokVars, history>>

Drop(s) ==
    /\ s \in dropping /\ dropping' = dropping \ {s}
    /\ Remove({s})
    /\ UNCHANGED <<userVars, tokVars, pc, loc, resets, overtaken>>

LoadUser(r) ==
    /\ pc[r] = "user"
    /\ IF loc[r].user \in accounts \ disabled THEN Goto(r, "run", loc[r])
       ELSE Goto(r, "run", [loc[r] EXCEPT !.user = None, !.dirty = TRUE])
    /\ UNCHANGED <<userVars, rowVars, tokVars, dropping, history>>

\* store.set: an upsert.
Upsert(s, u, e) ==
    /\ rows' = rows \cup {s} /\ everSid' = everSid \cup {s} /\ stale' = stale \ {s}
    /\ owner' = [owner EXCEPT ![s] = u]
    /\ epoch' = [epoch EXCEPT ![s] = e]

Save(r, s) ==
    /\ Ending(r) /\ loc[r].dirty
    /\ IF loc[r].sid = None THEN s \in Sids \ everSid ELSE s = loc[r].sid
    /\ Upsert(s, loc[r].user, loc[r].epoch)
    /\ ended' = ended \cup ({<<s, owner[s]>>} \ {<<s, None>>, <<s, loc[r].user>>})
    /\ Finish(r)
    /\ UNCHANGED <<userVars, tokVars, dropping, resets, overtaken>>

UpsertTouch(s, u) == Upsert(s, u, IF u = None THEN 0 ELSE password[u]) \* mutant
\* store.touch: an update, whose P2025 is ignored.
Refresh(s, u) == stale' = stale \ {s} /\ UNCHANGED <<rows, owner, epoch, everSid>>

Touch(r) ==
    /\ Ending(r) /\ ~ loc[r].dirty
    /\ IF loc[r].sid # None THEN Refresh(loc[r].sid, loc[r].user) ELSE UNCHANGED rowVars
    /\ Finish(r)
    /\ UNCHANGED <<userVars, tokVars, dropping, history>>

Expire(s) ==
    /\ s \in rows \ stale /\ stale' = stale \cup {s}
    /\ UNCHANGED <<userVars, rows, owner, epoch, everSid, tokVars, pc, loc, dropping, history>>

PruneAll == rows                                                \* mutant
Prunable == stale

Prune ==
    /\ Prunable # {} /\ Remove(Prunable)
    /\ UNCHANGED <<userVars, tokVars, pc, loc, dropping, resets, overtaken>>

-----------------------------------------------------------------------------
(* POST /auth/signin, /auth/signout, /auth/signup *)

\* The hash is read, then compared; the password offered is the right one.
SigninRead(r, u) ==
    /\ pc[r] = "run" /\ u \in accounts \ disabled
    /\ Goto(r, "si_regen", [loc[r] EXCEPT !.subject = u, !.epoch = password[u]])
    /\ UNCHANGED <<userVars, rowVars, tokVars, dropping, history>>

\* regenerate destroys the old session; the new one is saved at the end.
SigninRegen(r) ==
    /\ pc[r] = "si_regen"
    /\ Remove({loc[r].sid} \ {None})
    /\ Goto(r, "end", [Blank EXCEPT !.user = loc[r].subject, !.dirty = TRUE, !.epoch = loc[r].epoch])
    /\ UNCHANGED <<userVars, tokVars, dropping, resets, overtaken>>

Signout(r) ==
    /\ pc[r] = "run"
    /\ Remove({loc[r].sid} \ {None})
    /\ Finish(r)
    /\ UNCHANGED <<userVars, tokVars, dropping, resets, overtaken>>

\* The account is committed; the session gets its userId unless the mail fails.
SignupCommit(r, u) ==
    /\ pc[r] = "run" /\ u \in Users \ everUser
    /\ accounts' = accounts \cup {u} /\ everUser' = everUser \cup {u}
    /\ \/ Goto(r, "end", [loc[r] EXCEPT !.user = u, !.dirty = TRUE])
       \/ End(r)
    /\ UNCHANGED <<disabled, password, rowVars, tokVars, dropping, history>>

-----------------------------------------------------------------------------
(* POST /auth/password-reset/request and /confirm, POST /me/password *)

ResetRequestRead(r, u) ==
    /\ pc[r] = "run" /\ u \in accounts \ disabled
    /\ Goto(r, "rr_create", [loc[r] EXCEPT !.subject = u])
    /\ UNCHANGED <<userVars, rowVars, tokVars, dropping, history>>

Exists(u) == u \in accounts

\* userId is a foreign key; the mail may fail after the row was stored.
ResetRequestCreate(r, t) ==
    /\ pc[r] = "rr_create" /\ tok[t] = "none"
    /\ IF Exists(loc[r].subject)
       THEN /\ \E state \in {"mailed", "void"} : tok' = [tok EXCEPT ![t] = state]
            /\ tokOf' = [tokOf EXCEPT ![t] = loc[r].subject]
       ELSE UNCHANGED tokVars
    /\ End(r)
    /\ UNCHANGED <<userVars, rowVars, dropping, history>>

Redeemable(t) == tok[t] = "mailed"

ConfirmRead(r, t) ==
    /\ pc[r] = "run" /\ Redeemable(t)
    /\ Goto(r, "rc_commit", [loc[r] EXCEPT !.token = t, !.subject = tokOf[t]])
    /\ UNCHANGED <<userVars, rowVars, tokVars, dropping, history>>

OwnSession(u, r) == {s \in rows : owner[s] = u /\ s = loc[r].sid}      \* mutant
SessionsOf(u, r) == {s \in rows : owner[s] = u}

\* A request that proved the old password and has not used it up.
Pending(s, u) ==
    \/ pc[s] \in {"si_regen", "mp_write"} /\ loc[s].subject = u
    \/ pc[s] = "end" /\ loc[s].dirty /\ loc[s].user = u

\* One transaction; the hash was computed before it, the token is not read again.
ConfirmCommit(r) ==
    /\ pc[r] = "rc_commit"
    /\ LET u == loc[r].subject IN
       IF u \in accounts
       THEN /\ resets' = [resets EXCEPT ![u] = @ + 1]
            /\ password' = [password EXCEPT ![u] = resets[u] + 1]
            /\ tok' = [tok EXCEPT ![loc[r].token] = "void"]
            /\ overtaken' = IF \E s \in Reqs : Pending(s, u) THEN overtaken \cup {u}
                            ELSE overtaken
            /\ Remove(SessionsOf(u, r))
       ELSE UNCHANGED <<password, rowVars, tok, history>>
    /\ End(r)
    /\ UNCHANGED <<accounts, everUser, disabled, tokOf, dropping>>

\* requireAuth, then the hash is read, compared, and the new one computed.
PasswordRead(r) ==
    /\ pc[r] = "run" /\ loc[r].user \in accounts
    /\ Goto(r, "mp_write", [loc[r] EXCEPT !.subject = loc[r].user,
                                          !.epoch = password[loc[r].user]])
    /\ UNCHANGED <<userVars, rowVars, tokVars, dropping, history>>

PasswordWrite(r) ==
    /\ pc[r] = "mp_write"
    /\ password' = IF loc[r].subject \in accounts
                   THEN [password EXCEPT ![loc[r].subject] = loc[r].epoch] ELSE password
    /\ End(r)
    /\ UNCHANGED <<accounts, everUser, disabled, rowVars, tokVars, dropping, history>>

TokenExpire(t) ==
    /\ tok[t] = "mailed" /\ tok' = [tok EXCEPT ![t] = "void"]
    /\ UNCHANGED <<userVars, rowVars, tokOf, pc, loc, dropping, history>>

-----------------------------------------------------------------------------
\* The admin endpoints, whose own steps are in Accounts.
SetDisabled(u) ==
    /\ u \in accounts
    /\ \/ disabled' = disabled \cup {u}
       \/ disabled' = disabled \ {u}
    /\ UNCHANGED <<accounts, everUser, password, rowVars, tokVars, pc, loc, dropping, history>>

DeleteUser(u) ==
    /\ u \in accounts
    /\ accounts' = accounts \ {u} /\ disabled' = disabled \ {u}
    /\ tok' = [t \in Tokens |-> IF tokOf[t] = u THEN "void" ELSE tok[t]]
    /\ UNCHANGED <<everUser, password, rowVars, tokOf, pc, loc, dropping, history>>

Restart ==
    /\ pc' = [r \in Reqs |-> "idle"] /\ loc' = [r \in Reqs |-> Blank] /\ dropping' = {}
    /\ UNCHANGED <<userVars, rowVars, tokVars, history>>

Session(r) ==
    \/ \E c \in Sids \cup {None} : Load(r, c)
    \/ LoadUser(r) \/ Touch(r)
    \/ \E s \in Sids : Save(r, s)

Credentials(r) ==
    \/ \E u \in Users : SigninRead(r, u) \/ SignupCommit(r, u) \/ ResetRequestRead(r, u)
    \/ \E t \in Tokens : ResetRequestCreate(r, t) \/ ConfirmRead(r, t)
    \/ SigninRegen(r) \/ Signout(r) \/ ConfirmCommit(r) \/ PasswordRead(r) \/ PasswordWrite(r)

Next ==
    \/ \E r \in Reqs : Session(r) \/ Credentials(r)
    \/ \E s \in Sids : Drop(s) \/ Expire(s)
    \/ \E t \in Tokens : TokenExpire(t)
    \/ \E u \in Users : SetDisabled(u) \/ DeleteUser(u)
    \/ Prune \/ Restart

Spec == Init /\ [][Next]_vars

-----------------------------------------------------------------------------
TypeOK ==
    /\ accounts \subseteq everUser /\ everUser \subseteq Users /\ disabled \subseteq accounts
    /\ password \in [Users -> Nat] /\ resets \in [Users -> Nat]
    /\ stale \subseteq rows /\ rows \subseteq everSid /\ everSid \subseteq Sids
    /\ owner \in [Sids -> everUser \cup {None}] /\ epoch \in [Sids -> Nat]
    /\ tok \in [Tokens -> TokenStates]
    /\ tokOf \in [Tokens -> Users \cup {None}]
    /\ \A t \in Tokens : tok[t] = "mailed" => tokOf[t] \in accounts
    /\ pc \in [Reqs -> PCs] /\ loc \in [Reqs -> Locals]
    /\ dropping \subseteq Sids /\ overtaken \subseteq everUser
    /\ ended \subseteq Sids \X everUser

\* README.md:107: a reset invalidates active sessions: no session stays open, and no
\* password in force, that is older than the last reset; but for accounts that were
\* reset while another request held proof of the older password (a sign-in that
\* compared it saves its session after the reset).
OldCredentialsDie ==
    \A u \in accounts \ overtaken :
        /\ password[u] = resets[u]
        /\ \A s \in rows : owner[s] = u => epoch[s] = resets[u]

\* The passwords that requests have proven and not used yet, and those behind the
\* open sessions.
Opens(u, e) == [user |-> u, number |-> IF u = None THEN 0 ELSE e]
Proof(step, l) ==
    IF step \in {"si_regen", "mp_write"} THEN Opens(l.subject, l.epoch)
    ELSE IF step = "end" /\ l.dirty THEN Opens(l.user, l.epoch)
    ELSE Opens(None, 0)
Held == [r \in Reqs |-> Proof(pc[r], loc[r])]
Open == [s \in Sids |-> Opens(owner[s], epoch[s])]

C == INSTANCE CredentialPromise
        WITH session <- Open, force <- password, held <- Held, spent <- ended

\* Sessions and passwords behave as if each route acted at once (CredentialPromise): a
\* session opens and a password changes only by a proof its request took of the
\* password then in force, a reset leaves its account no session, and a session
\* that ended (session-store.ts:63 updates; only a changed one is upserted, :39)
\* never opens for its user again, whatever requests were using it meanwhile.
KeepsCredentials == C!Spec

\* A session in use is not lost under its user: while it has not expired it is
\* removed only by a request that carries it (sign-out, a new sign-in), by a reset
\* of its account, or by a load that had found it expired.
LiveStays ==
    [][\A s \in rows \ (stale \cup rows') :
          \/ s \in dropping
          \/ \E r \in Reqs :
                \/ pc[r] \in {"run", "si_regen"} /\ loc[r].sid = s
                \/ pc[r] = "rc_commit" /\ loc[r].subject = owner[s]]_vars
=============================================================================
