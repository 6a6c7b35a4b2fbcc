--------------------------- MODULE SessionsProofs ---------------------------
(***************************************************************************)
(* Proofs about sessions and credentials, for any number of users,         *)
(* sessions, reset tokens and requests in flight.                          *)
(***************************************************************************)
EXTENDS Sessions, TLAPS

-----------------------------------------------------------------------------
(* types *)

\* What a request holds is an id that was handed out.
Refs == \A r \in Reqs :
    /\ loc[r].sid \in everSid \cup {None}
    /\ loc[r].user \in everUser \cup {None} /\ loc[r].subject \in everUser \cup {None}

RowsOK ==
    /\ stale \subseteq rows /\ rows \subseteq everSid /\ everSid \subseteq Sids
    /\ owner \in [Sids -> everUser \cup {None}] /\ epoch \in [Sids -> Nat]
    /\ ended \subseteq Sids \X everUser
    /\ \A s \in Sids : owner[s] # None => s \in rows
UsersOK ==
    /\ accounts \subseteq everUser /\ everUser \subseteq Users /\ disabled \subseteq accounts
    /\ password \in [Users -> Nat] /\ resets \in [Users -> Nat] /\ overtaken \subseteq everUser
TokensOK ==
    /\ tok \in [Tokens -> TokenStates] /\ tokOf \in [Tokens -> Users \cup {None}]
    /\ \A t \in Tokens : tok[t] = "mailed" => tokOf[t] \in accounts
ReqsOK == pc \in [Reqs -> PCs] /\ loc \in [Reqs -> Locals] /\ Refs

Types == UsersOK /\ RowsOK /\ TokensOK /\ ReqsOK /\ dropping \subseteq Sids

LEMMA BlankLocal == Blank \in Locals /\ Blank.sid = None /\ Blank.user = None /\ Blank.subject = None
                    /\ Blank.dirty = FALSE /\ Blank.epoch = 0
BY DEF Blank, Locals

LEMMA GotoType ==
    ASSUME ReqsOK, NEW r \in Reqs, NEW step \in PCs, NEW l \in Locals, Goto(r, step, l),
           everSid \subseteq everSid', everUser \subseteq everUser',
           l.sid \in everSid' \cup {None}, l.user \in everUser' \cup {None},
           l.subject \in everUser' \cup {None}
    PROVE  ReqsOK'
BY DEF ReqsOK, Refs, Goto

LEMMA FinishType ==
    ASSUME ReqsOK, NEW r \in Reqs, Finish(r), everSid \subseteq everSid', everUser \subseteq everUser'
    PROVE  ReqsOK'
<1>1. "idle" \in PCs
  BY DEF PCs
<1>2. QED  BY <1>1, BlankLocal, GotoType DEF Finish

LEMMA EndType ==
    ASSUME ReqsOK, NEW r \in Reqs, End(r), everSid \subseteq everSid', everUser \subseteq everUser'
    PROVE  ReqsOK'
<1> DEFINE l == [Blank EXCEPT !.sid = loc[r].sid, !.dirty = loc[r].dirty]
<1>1. l \in Locals /\ l.sid = loc[r].sid /\ l.user = None /\ l.subject = None /\ "end" \in PCs
  BY DEF ReqsOK, Locals, Blank, PCs
<1>2. QED  BY <1>1, GotoType DEF End, ReqsOK, Refs

LEMMA RemoveType ==
    ASSUME RowsOK, NEW S \in SUBSET Sids, Remove(S), UNCHANGED everUser
    PROVE  RowsOK'
<1>1. owner' \in [Sids -> everUser \cup {None}] /\ epoch' \in [Sids -> Nat]
  BY DEF Remove, RowsOK
<1>2. {<<s, owner[s]>> : s \in {x \in S \cap rows : owner[x] # None}} \subseteq Sids \X everUser
  BY DEF RowsOK
<1>3. QED  BY <1>1, <1>2 DEF Remove, RowsOK

LEMMA UpsertType ==
    ASSUME RowsOK, NEW s \in Sids, NEW u \in everUser \cup {None}, NEW e \in Nat, Upsert(s, u, e),
           UNCHANGED everUser, ended' \subseteq Sids \X everUser
    PROVE  RowsOK'
BY DEF RowsOK, Upsert

LEMMA OwnSid == ASSUME Types, NEW r \in Reqs PROVE {loc[r].sid} \ {None} \in SUBSET Sids
BY DEF Types, ReqsOK, RowsOK, Locals

LEMMA SessionTypes ==
    ASSUME Types, NEW r \in Reqs, Session(r) PROVE Types'
<1>1. ASSUME NEW c \in Sids \cup {None}, Load(r, c) PROVE Types'
  <2>1. ReqsOK'
    <3>1. CASE Goto(r, "run", Blank)
      BY <3>1, <1>1, GotoType, BlankLocal DEF Types, Load, PCs, userVars, rowVars
    <3>2. CASE Goto(r, "run", [Blank EXCEPT !.sid = c])
      <4> DEFINE l == [Blank EXCEPT !.sid = c]
      <4>1. l \in Locals /\ l.sid = c /\ l.user = None /\ l.subject = None /\ "run" \in PCs
        BY DEF Locals, Blank, PCs
      <4>2. QED  BY <3>2, <4>1, <1>1, GotoType DEF Types, Load, userVars, rowVars
    <3>3. CASE Goto(r, "user", [Blank EXCEPT !.sid = c, !.user = owner[c]]) /\ c \in rows \ stale
      <4> DEFINE l == [Blank EXCEPT !.sid = c, !.user = owner[c]]
      <4>0. owner[c] \in everUser \cup {None} /\ everUser \subseteq Users
        BY <3>3 DEF Types, RowsOK, UsersOK
      <4>1. l \in Locals /\ l.sid = c /\ l.user = owner[c] /\ l.subject = None /\ "user" \in PCs
        BY <4>0 DEF Locals, Blank, PCs
      <4>2. QED  BY <3>3, <4>0, <4>1, <1>1, GotoType DEF Types, Load, userVars, rowVars
    <3>4. QED  BY <1>1, <3>1, <3>2, <3>3 DEF Load
  <2>2. dropping' \subseteq Sids
    BY <1>1 DEF Load, Types, RowsOK
  <2>3. QED
    BY <1>1, <2>1, <2>2 DEF Load, Types, UsersOK, RowsOK, TokensOK, userVars, rowVars, tokVars, history
<1>2. CASE LoadUser(r)
  <2> DEFINE l == [loc[r] EXCEPT !.user = None, !.dirty = TRUE]
  <2>1. /\ l \in Locals /\ l.sid = loc[r].sid /\ l.user = None /\ l.subject = loc[r].subject
        /\ loc[r] \in Locals /\ "run" \in PCs
    BY DEF Types, ReqsOK, Locals, PCs
  <2>2. ReqsOK'
    BY <1>2, <2>1, GotoType DEF LoadUser, Types, ReqsOK, Refs, userVars, rowVars
  <2>3. QED
    BY <1>2, <2>2 DEF LoadUser, Types, UsersOK, RowsOK, TokensOK, userVars, rowVars, tokVars, history
<1>3. CASE Touch(r)
  <2>1. RowsOK' /\ UNCHANGED <<everSid, everUser>>
    BY <1>3 DEF Touch, Refresh, Types, RowsOK, rowVars, userVars, history
  <2>2. QED
    BY <1>3, <2>1, FinishType DEF Touch, Types, UsersOK, TokensOK, userVars, tokVars, history
<1>4. ASSUME NEW s \in Sids, Save(r, s) PROVE Types'
  <2>1. loc[r].user \in everUser \cup {None} /\ loc[r].epoch \in Nat
    BY DEF Types, ReqsOK, Refs, Locals
  <2>2. UNCHANGED everUser /\ ended' \subseteq Sids \X everUser
    BY <1>4 DEF Save, Types, RowsOK, userVars
  <2>3. RowsOK' /\ everSid \subseteq everSid'
    BY <1>4, <2>1, <2>2, UpsertType DEF Save, Upsert, Types
  <2>4. QED
    BY <1>4, <2>2, <2>3, FinishType DEF Save, Types, UsersOK, TokensOK, userVars, tokVars, history
<1>5. QED  BY <1>1, <1>2, <1>3, <1>4 DEF Session

LEMMA CredentialTypes ==
    ASSUME Types, NEW r \in Reqs, Credentials(r) PROVE Types'
<1>1. loc[r] \in Locals /\ loc[r].sid \in everSid \cup {None} /\ loc[r].user \in everUser \cup {None}
      /\ loc[r].subject \in everUser \cup {None} /\ everUser \subseteq Users /\ accounts \subseteq everUser
  BY DEF Types, ReqsOK, Refs, UsersOK
<1>2. ASSUME NEW u \in Users, SigninRead(r, u) PROVE Types'
  <2> DEFINE l == [loc[r] EXCEPT !.subject = u, !.epoch = password[u]]
  <2>1. l \in Locals /\ l.sid = loc[r].sid /\ l.user = loc[r].user /\ l.subject = u /\ "si_regen" \in PCs
    BY <1>1 DEF Locals, PCs, Types, UsersOK
  <2>2. ReqsOK'
    BY <1>1, <1>2, <2>1, GotoType DEF SigninRead, Types, userVars, rowVars
  <2>3. QED
    BY <1>2, <2>2 DEF SigninRead, Types, UsersOK, RowsOK, TokensOK, userVars, rowVars, tokVars, history
<1>3. CASE SigninRegen(r)
  <2> DEFINE l == [Blank EXCEPT !.user = loc[r].subject, !.dirty = TRUE, !.epoch = loc[r].epoch]
  <2>1. l \in Locals /\ l.sid = None /\ l.user = loc[r].subject /\ l.subject = None /\ "end" \in PCs
    BY <1>1 DEF Locals, Blank, PCs
  <2>2. UNCHANGED <<everSid, everUser>>
    BY <1>3 DEF SigninRegen, Remove, userVars
  <2>3. ReqsOK'
    BY <1>1, <1>3, <2>1, <2>2, GotoType DEF SigninRegen, Types
  <2>4. RowsOK'
    BY <1>3, <2>2, OwnSid, RemoveType DEF SigninRegen, Types
  <2>5. QED
    BY <1>3, <2>3, <2>4 DEF SigninRegen, Types, UsersOK, TokensOK, userVars, tokVars
<1>4. CASE Signout(r)
  <2>1. UNCHANGED <<everSid, everUser>>
    BY <1>4 DEF Signout, Remove, userVars
  <2>2. RowsOK'
    BY <1>4, <2>1, OwnSid, RemoveType DEF Signout, Types
  <2>3. ReqsOK'
    BY <1>4, <2>1, FinishType DEF Signout, Types
  <2>4. QED
    BY <1>4, <2>2, <2>3 DEF Signout, Types, UsersOK, TokensOK, userVars, tokVars
<1>5. ASSUME NEW u \in Users, SignupCommit(r, u) PROVE Types'
  <2>1. everUser' = everUser \cup {u} /\ everSid' = everSid
    BY <1>5 DEF SignupCommit, rowVars
  <2>2. ReqsOK'
    <3>1. CASE Goto(r, "end", [loc[r] EXCEPT !.user = u, !.dirty = TRUE])
      <4> DEFINE l == [loc[r] EXCEPT !.user = u, !.dirty = TRUE]
      <4>1. l \in Locals /\ l.sid = loc[r].sid /\ l.user = u /\ l.subject = loc[r].subject /\ "end" \in PCs
        BY <1>1 DEF Locals, PCs
      <4>2. /\ l.sid \in everSid' \cup {None} /\ l.user \in everUser' \cup {None}
            /\ l.subject \in everUser' \cup {None}
            /\ everSid \subseteq everSid' /\ everUser \subseteq everUser'
        BY <1>1, <2>1, <4>1
      <4>3. Goto(r, "end", l) /\ ReqsOK
        BY <3>1 DEF Types
      <4> HIDE DEF l
      <4>4. QED  BY <4>1, <4>2, <4>3, GotoType
    <3>2. CASE End(r)
      BY <3>2, <2>1, EndType DEF Types
    <3>3. QED  BY <1>5, <3>1, <3>2 DEF SignupCommit
  <2>3. RowsOK'
    BY <1>5, <2>1 DEF SignupCommit, Types, RowsOK, rowVars, history
  <2>4. QED
    BY <1>5, <2>1, <2>2, <2>3 DEF SignupCommit, Types, UsersOK, TokensOK, tokVars, history
<1>6. ASSUME NEW u \in Users, ResetRequestRead(r, u) PROVE Types'
  <2> DEFINE l == [loc[r] EXCEPT !.subject = u]
  <2>1. l \in Locals /\ l.sid = loc[r].sid /\ l.user = loc[r].user /\ l.subject = u /\ "rr_create" \in PCs
    BY <1>1 DEF Locals, PCs
  <2>2. ReqsOK'
    BY <1>1, <1>6, <2>1, GotoType DEF ResetRequestRead, Types, userVars, rowVars
  <2>3. QED
    BY <1>6, <2>2 DEF ResetRequestRead, Types, UsersOK, RowsOK, TokensOK, userVars, rowVars, tokVars, history
<1>7. ASSUME NEW t \in Tokens, ResetRequestCreate(r, t) PROVE Types'
  <2>1. ReqsOK'
    BY <1>7, EndType DEF ResetRequestCreate, Types, userVars, rowVars
  <2>2. TokensOK'
    BY <1>7, <1>1 DEF ResetRequestCreate, Exists, Types, TokensOK, TokenStates, userVars, tokVars
  <2>3. QED
    BY <1>7, <2>1, <2>2 DEF ResetRequestCreate, Types, UsersOK, RowsOK, userVars, rowVars, history
<1>8. ASSUME NEW t \in Tokens, ConfirmRead(r, t) PROVE Types'
  <2> DEFINE l == [loc[r] EXCEPT !.token = t, !.subject = tokOf[t]]
  <2>1. tokOf[t] \in accounts
    BY <1>8 DEF ConfirmRead, Redeemable, Types, TokensOK
  <2>2. l \in Locals /\ l.sid = loc[r].sid /\ l.user = loc[r].user /\ l.subject = tokOf[t] /\ "rc_commit" \in PCs
    BY <1>1, <2>1 DEF Locals, PCs
  <2>3. ReqsOK'
    BY <1>1, <1>8, <2>1, <2>2, GotoType DEF ConfirmRead, Types, userVars, rowVars
  <2>4. QED
    BY <1>8, <2>3 DEF ConfirmRead, Types, UsersOK, RowsOK, TokensOK, userVars, rowVars, tokVars, history
<1>9. CASE ConfirmCommit(r)
  <2>1. UNCHANGED <<everSid, everUser, accounts>>
    BY <1>9 DEF ConfirmCommit, Remove, rowVars
  <2>2. ReqsOK'
    BY <1>9, <2>1, EndType DEF ConfirmCommit, Types
  <2>3. RowsOK'
    <3>1. SessionsOf(loc[r].subject, r) \in SUBSET Sids
      BY DEF SessionsOf, Types, RowsOK
    <3>2. QED  BY <1>9, <2>1, <3>1, RemoveType DEF ConfirmCommit, Types, RowsOK, rowVars, history
  <2>4. UsersOK'
    BY <1>9, <1>1, <2>1 DEF ConfirmCommit, Types, UsersOK, history
  <2>5. TokensOK'
    BY <1>9, <2>1 DEF ConfirmCommit, Types, TokensOK, TokenStates
  <2>6. QED  BY <1>9, <2>2, <2>3, <2>4, <2>5 DEF ConfirmCommit, Types
<1>10. CASE PasswordRead(r)
  <2> DEFINE l == [loc[r] EXCEPT !.subject = loc[r].user, !.epoch = password[loc[r].user]]
  <2>1. l \in Locals /\ l.sid = loc[r].sid /\ l.user = loc[r].user /\ l.subject = loc[r].user /\ "mp_write" \in PCs
    BY <1>1, <1>10 DEF PasswordRead, Locals, PCs, Types, UsersOK
  <2>2. ReqsOK'
    BY <1>1, <1>10, <2>1, GotoType DEF PasswordRead, Types, userVars, rowVars
  <2>3. QED
    BY <1>10, <2>2 DEF PasswordRead, Types, UsersOK, RowsOK, TokensOK, userVars, rowVars, tokVars, history
<1>11. CASE PasswordWrite(r)
  <2>1. ReqsOK'
    BY <1>11, EndType DEF PasswordWrite, Types, rowVars
  <2>2. password' \in [Users -> Nat]
    BY <1>1, <1>11 DEF PasswordWrite, Types, UsersOK, Locals
  <2>3. QED
    BY <1>11, <2>1, <2>2 DEF PasswordWrite, Types, UsersOK, RowsOK, TokensOK, rowVars, tokVars, history
<1>12. QED
  BY <1>2, <1>3, <1>4, <1>5, <1>6, <1>7, <1>8, <1>9, <1>10, <1>11 DEF Credentials

LEMMA TypesInvariant == Types /\ [Next]_vars => Types'
<1> SUFFICES ASSUME Types, [Next]_vars PROVE Types'
  OBVIOUS
<1>1. ASSUME NEW s \in Sids, Drop(s) PROVE Types'
  <2>1. UNCHANGED <<everSid, everUser>>
    BY <1>1 DEF Drop, Remove, userVars
  <2>2. RowsOK'
    BY <1>1, <2>1, RemoveType DEF Drop, Types
  <2>3. QED
    BY <1>1, <2>1, <2>2 DEF Drop, Types, UsersOK, TokensOK, ReqsOK, Refs, userVars, tokVars
<1>2. ASSUME NEW s \in Sids, Expire(s) PROVE Types'
  BY <1>2 DEF Expire, Types, UsersOK, RowsOK, TokensOK, ReqsOK, Refs, userVars, tokVars, history
<1>3. ASSUME NEW t \in Tokens, TokenExpire(t) PROVE Types'
  BY <1>3 DEF TokenExpire, Types, UsersOK, RowsOK, TokensOK, TokenStates, ReqsOK, Refs, userVars, rowVars, history
<1>4. ASSUME NEW u \in Users, SetDisabled(u) PROVE Types'
  BY <1>4 DEF SetDisabled, Types, UsersOK, RowsOK, TokensOK, ReqsOK, Refs, rowVars, tokVars, history
<1>5. ASSUME NEW u \in Users, DeleteUser(u) PROVE Types'
  <2>1. TokensOK'
    BY <1>5 DEF DeleteUser, Types, TokensOK, TokenStates
  <2>2. QED
    BY <1>5, <2>1 DEF DeleteUser, Types, UsersOK, RowsOK, ReqsOK, Refs, rowVars, history
<1>6. CASE Prune
  <2>1. UNCHANGED <<everSid, everUser>> /\ Prunable \in SUBSET Sids
    BY <1>6 DEF Prune, Prunable, Remove, userVars, Types, RowsOK
  <2>2. RowsOK'
    BY <1>6, <2>1, RemoveType DEF Prune, Types
  <2>3. QED
    BY <1>6, <2>1, <2>2 DEF Prune, Types, UsersOK, TokensOK, ReqsOK, Refs, userVars, tokVars
<1>7. CASE Restart
  <2>1. ReqsOK'
    BY <1>7, BlankLocal DEF Restart, ReqsOK, Refs, PCs
  <2>2. QED
    BY <1>7, <2>1 DEF Restart, Types, UsersOK, RowsOK, TokensOK, userVars, rowVars, tokVars, history
<1>8. CASE UNCHANGED vars
  BY <1>8 DEF vars, Types, UsersOK, RowsOK, TokensOK, ReqsOK, Refs, userVars, rowVars, tokVars, history
<1>9. QED
  BY <1>1, <1>2, <1>3, <1>4, <1>5, <1>6, <1>7, <1>8, SessionTypes, CredentialTypes DEF Next

LEMMA TypesAlways == Spec => []Types
<1>1. Init => Types
  BY SessionsAssumption, BlankLocal DEF Init, Types, UsersOK, RowsOK, TokensOK, TokenStates, ReqsOK, Refs, PCs
<1>2. QED  BY <1>1, TypesInvariant, PTL DEF Spec

\* Types hold throughout; in particular a session or a usable token only names
\* accounts that were created, and a usable token one that was not deleted.
THEOREM TypeCorrect == Spec => []TypeOK
<1>1. Types => TypeOK
  BY DEF Types, UsersOK, RowsOK, TokensOK, ReqsOK, TypeOK
<1>2. QED  BY <1>1, TypesAlways, PTL

-----------------------------------------------------------------------------
(* no removed session comes back *)

\* A session that was removed (signed out, replaced by a sign-in, reset, pruned) or
\* taken over by a sign-up never authenticates its user again.
EndedStays == \A s \in rows : <<s, owner[s]>> \notin ended

\* A request that will save a user into a session that others know is alone with
\* it, and the session never was that user's.
Claim(r) == loc[r].dirty /\ loc[r].user # None
Claims == \A r \in Reqs : Claim(r) =>
    /\ pc[r] = "end"
    /\ loc[r].sid # None =>
         /\ <<loc[r].sid, loc[r].user>> \notin ended /\ owner[loc[r].sid] # loc[r].user
         /\ \A q \in Reqs \ {r} :
               Claim(q) => loc[q].sid # loc[r].sid \/ loc[q].user # loc[r].user
Gone == (\A p \in ended : p[1] \in everSid) /\ EndedStays /\ Claims

\* Rows are only removed, and only what was removed is recorded.
Shrinks ==
    /\ everSid' = everSid
    /\ \A x \in rows' : x \in rows /\ owner'[x] = owner[x]
                        /\ (<<x, owner[x]>> \in ended' => <<x, owner[x]>> \in ended)
    /\ \A p \in ended' : p \in ended \/ (p[1] \in rows /\ p = <<p[1], owner[p[1]]>>)
    /\ \A x \in Sids : owner'[x] \in {owner[x], None}

LEMMA RemoveShrinks == ASSUME Types, NEW S \in SUBSET Sids, Remove(S) PROVE Shrinks
<1>1. \A x \in rows' : x \in rows /\ owner'[x] = owner[x]
  BY DEF Remove, Types, RowsOK
<1>2. \A p \in ended' : p \in ended \/ (p[1] \in S \cap rows /\ p = <<p[1], owner[p[1]]>>)
  <2>1. \A p \in ended' \ ended : \E x \in S \cap rows : p = <<x, owner[x]>>
    BY DEF Remove
  <2>2. QED  BY <2>1
<1>3. \A x \in rows' : x \notin S
  BY DEF Remove
<1>4. \A x \in rows' : <<x, owner[x]>> \in ended' => <<x, owner[x]>> \in ended
  BY <1>2, <1>3
<1>5. QED  BY <1>1, <1>2, <1>4 DEF Shrinks, Remove

LEMMA SameShrinks == ASSUME UNCHANGED <<rows, owner, everSid, ended>> PROVE Shrinks
BY DEF Shrinks

LEMMA ShrunkTables ==
    ASSUME Types, Gone, Shrinks
    PROVE  (\A p \in ended' : p[1] \in everSid') /\ EndedStays'
<1>1. \A p \in ended' : p[1] \in everSid'
  BY DEF Shrinks, Gone, Types, RowsOK
<1>2. EndedStays'
  BY DEF Shrinks, Gone, EndedStays
<1>3. QED  BY <1>1, <1>2

\* What a claim says of the tables survives.
LEMMA ShrunkClaim ==
    ASSUME Types, Shrinks, NEW x \in everSid, NEW u, u # None, <<x, u>> \notin ended, owner[x] # u
    PROVE  <<x, u>> \notin ended' /\ owner'[x] # u
BY DEF Types, RowsOK, Shrinks

LEMMA GoneTables == ASSUME Types, Gone, Shrinks, UNCHANGED <<pc, loc>> PROVE Gone'
<1> SUFFICES Claims'
  BY ShrunkTables DEF Gone
<1> SUFFICES ASSUME NEW r \in Reqs, Claim(r), loc[r].sid # None
             PROVE  <<loc[r].sid, loc[r].user>> \notin ended' /\ owner'[loc[r].sid] # loc[r].user
  BY DEF Gone, Claims, Claim
<1>1. loc[r].sid \in everSid
  BY DEF Types, ReqsOK, Refs
<1>2. QED  BY <1>1, ShrunkClaim DEF Gone, Claims, Claim

\* A step of one request that shrinks the tables at most: its new claim, if any,
\* is about an account that did not exist, or about a session yet to come.
LEMMA GoneStep ==
    ASSUME Types, Gone, Shrinks, NEW r \in Reqs, NEW step, NEW l, Goto(r, step, l),
           l.dirty /\ l.user # None =>
               step = "end" /\ (l.sid = None \/ (l.sid \in everSid /\ l.user \notin everUser))
    PROVE  Gone'
<1>1. pc'[r] = step /\ loc'[r] = l /\ \A q \in Reqs \ {r} : pc'[q] = pc[q] /\ loc'[q] = loc[q]
  BY DEF Goto, Types, ReqsOK
<1> SUFFICES Claims'
  BY ShrunkTables DEF Gone
<1>2. \A q \in Reqs : loc[q].user \in everUser \cup {None} /\ loc[q].sid \in everSid \cup {None}
  BY DEF Types, ReqsOK, Refs
<1>3. ASSUME NEW q \in Reqs \ {r}, Claim(q)'
      PROVE  /\ pc'[q] = "end"
             /\ loc'[q].sid # None =>
                  /\ <<loc'[q].sid, loc'[q].user>> \notin ended' /\ owner'[loc'[q].sid] # loc'[q].user
                  /\ \A p \in Reqs \ {q} :
                       Claim(p)' => loc'[p].sid # loc'[q].sid \/ loc'[p].user # loc'[q].user
  <2>1. Claim(q) /\ loc'[q] = loc[q] /\ pc'[q] = pc[q]
    BY <1>1, <1>3 DEF Claim
  <2>2. pc'[q] = "end"
    BY <2>1 DEF Gone, Claims
  <2>3. ASSUME loc[q].sid # None
        PROVE  <<loc[q].sid, loc[q].user>> \notin ended' /\ owner'[loc[q].sid] # loc[q].user
    BY <2>1, <2>3, <1>2, ShrunkClaim DEF Gone, Claims, Claim
  <2>4. ASSUME loc[q].sid # None, NEW p \in Reqs \ {q}, Claim(p)'
        PROVE  loc'[p].sid # loc[q].sid \/ loc'[p].user # loc[q].user
    <3>1. CASE p = r
      BY <3>1, <2>1, <2>4, <1>1, <1>2 DEF Claim
    <3>2. CASE p # r
      <4>1. Claim(p) /\ loc'[p] = loc[p] /\ p # q
        BY <3>2, <2>4, <1>1 DEF Claim
      <4>2. QED  BY <2>1, <2>4, <4>1 DEF Gone, Claims
    <3>3. QED  BY <3>1, <3>2
  <2>5. QED  BY <2>1, <2>2, <2>3, <2>4
<1>4. ASSUME Claim(r)'
      PROVE  /\ pc'[r] = "end"
             /\ loc'[r].sid # None =>
                  /\ <<loc'[r].sid, loc'[r].user>> \notin ended' /\ owner'[loc'[r].sid] # loc'[r].user
                  /\ \A p \in Reqs \ {r} :
                       Claim(p)' => loc'[p].sid # loc'[r].sid \/ loc'[p].user # loc'[r].user
  <2>1. l.dirty /\ l.user # None
    BY <1>1, <1>4 DEF Claim
  <2>2. ASSUME l.sid # None
        PROVE  <<l.sid, l.user>> \notin ended' /\ owner'[l.sid] # l.user
    <3>1. <<l.sid, l.user>> \notin ended /\ owner[l.sid] # l.user
      BY <2>1, <2>2 DEF Types, RowsOK
    <3>2. QED  BY <2>1, <2>2, <3>1, ShrunkClaim
  <2>3. ASSUME l.sid # None, NEW p \in Reqs \ {r} PROVE loc'[p].user # l.user
    BY <2>1, <2>3, <1>1, <1>2
  <2>4. QED  BY <1>1, <2>1, <2>2, <2>3
<1>5. QED  BY <1>3, <1>4 DEF Claims

LEMMA GoneEnds ==
    ASSUME Types, Gone, Shrinks, NEW r \in Reqs, End(r) \/ Finish(r) PROVE Gone'
<1>1. CASE End(r)
  <2> DEFINE l == [Blank EXCEPT !.sid = loc[r].sid, !.dirty = loc[r].dirty]
  <2>1. l.user = None /\ Goto(r, "end", l)
    BY <1>1 DEF End, Blank
  <2> HIDE DEF l
  <2>2. QED  BY <2>1, GoneStep
<1>2. CASE Finish(r)
  BY <1>2, GoneStep, BlankLocal DEF Finish
<1>3. QED  BY <1>1, <1>2

LEMMA GoneSave ==
    ASSUME Types, Gone, NEW r \in Reqs, NEW s \in Sids, Save(r, s) PROVE Gone'
<1>1. /\ everSid' = everSid \cup {s} /\ rows' = rows \cup {s}
      /\ ended \subseteq ended'
      /\ \A p \in ended' : p \in ended \/ (p = <<s, owner[s]>> /\ owner[s] # loc[r].user /\ owner[s] # None)
      /\ owner'[s] = loc[r].user /\ \A x \in Sids \ {s} : owner'[x] = owner[x]
  BY DEF Save, Upsert, Types, RowsOK
<1>2. loc'[r] = Blank /\ \A q \in Reqs \ {r} : pc'[q] = pc[q] /\ loc'[q] = loc[q]
  BY DEF Save, Finish, Goto, Types, ReqsOK
<1>3. \A q \in Reqs : loc[q].sid \in everSid \cup {None} /\ loc[q].user \in everUser \cup {None}
  BY DEF Types, ReqsOK, Refs
<1>4. /\ None \notin everUser /\ None \notin Sids /\ everSid \subseteq Sids /\ rows \subseteq Sids
      /\ loc[r].dirty /\ IF loc[r].sid = None THEN s \notin everSid ELSE s = loc[r].sid
  BY SessionsAssumption DEF Types, UsersOK, RowsOK, Save
<1>5. <<s, loc[r].user>> \notin ended
  <2>1. CASE loc[r].user = None
    BY <2>1, <1>4 DEF Types, RowsOK
  <2>2. CASE loc[r].user # None /\ loc[r].sid = None
    BY <2>2, <1>4 DEF Gone
  <2>3. CASE loc[r].user # None /\ loc[r].sid # None
    BY <2>3, <1>4 DEF Gone, Claims, Claim
  <2>4. QED  BY <2>1, <2>2, <2>3
<1>6. EndedStays'
  BY <1>1, <1>4, <1>5 DEF EndedStays, Gone
<1>7. ASSUME NEW q \in Reqs, Claim(q)'
      PROVE  /\ q # r /\ Claim(q) /\ pc'[q] = "end"
             /\ loc[q].sid # None =>
                  /\ <<loc[q].sid, loc[q].user>> \notin ended' /\ owner'[loc[q].sid] # loc[q].user
  <2>1. q # r /\ Claim(q) /\ loc'[q] = loc[q] /\ pc'[q] = pc[q]
    BY <1>2, <1>7, BlankLocal DEF Claim
  <2>2. pc'[q] = "end"
    BY <2>1 DEF Gone, Claims
  <2>3. ASSUME loc[q].sid # None
        PROVE  <<loc[q].sid, loc[q].user>> \notin ended' /\ owner'[loc[q].sid] # loc[q].user
    <3>1. <<loc[q].sid, loc[q].user>> \notin ended /\ owner[loc[q].sid] # loc[q].user
          /\ loc[q].sid \in everSid
      BY <2>1, <2>3, <1>3 DEF Gone, Claims
    <3>2. CASE loc[q].sid # s
      BY <3>1, <3>2, <1>1, <1>4
    <3>3. CASE loc[q].sid = s
      <4>1. loc[r].sid = s
        BY <3>1, <3>3, <1>3, <1>4
      <4>2. loc[r].user # loc[q].user
        BY <2>1, <2>3, <3>3, <4>1, <1>4 DEF Gone, Claims, Claim
      <4>3. QED  BY <3>1, <3>3, <4>2, <1>1
    <3>4. QED  BY <3>2, <3>3
  <2>4. QED  BY <2>1, <2>2, <2>3
<1>8. Claims'
  <2>1. ASSUME NEW q \in Reqs, NEW p \in Reqs \ {q}, Claim(q)', Claim(p)', loc'[q].sid # None
        PROVE  loc'[p].sid # loc'[q].sid \/ loc'[p].user # loc'[q].user
    <3>1. q # r /\ p # r /\ Claim(q) /\ Claim(p)
      BY <2>1, <1>7
    <3>2. loc'[q] = loc[q] /\ loc'[p] = loc[p]
      BY <3>1, <1>2
    <3>3. loc[p].sid # loc[q].sid \/ loc[p].user # loc[q].user
      BY <2>1, <3>1, <3>2 DEF Gone, Claims
    <3>4. QED  BY <3>2, <3>3
  <2>2. \A q \in Reqs : Claim(q)' => loc'[q] = loc[q]
    BY <1>2, <1>7
  <2>3. QED  BY <1>7, <2>1, <2>2 DEF Claims
<1>9. QED  BY <1>1, <1>6, <1>8 DEF Gone

LEMMA GoneInvariant == Types /\ Gone /\ [Next]_vars => Gone'
<1> SUFFICES ASSUME Types, Gone, [Next]_vars PROVE Gone'
  OBVIOUS
<1>0. \A r \in Reqs : Claim(r) => pc[r] = "end"
  BY DEF Gone, Claims
<1>1. ASSUME NEW r \in Reqs, NEW c \in Sids \cup {None}, Load(r, c) PROVE Gone'
  <2>1. Shrinks
    BY <1>1, SameShrinks DEF Load, rowVars, history
  <2>2. ASSUME NEW step, NEW l, Goto(r, step, l), l.dirty = FALSE PROVE Gone'
    BY <2>1, <2>2, GoneStep
  <2>3. QED
    <3>1. /\ Blank.dirty = FALSE /\ [Blank EXCEPT !.sid = c].dirty = FALSE
          /\ [Blank EXCEPT !.sid = c, !.user = owner[c]].dirty = FALSE
      BY DEF Blank
    <3>2. \/ Goto(r, "run", Blank) \/ Goto(r, "run", [Blank EXCEPT !.sid = c])
          \/ Goto(r, "user", [Blank EXCEPT !.sid = c, !.user = owner[c]])
      BY <1>1 DEF Load
    <3>3. QED  BY <2>2, <3>1, <3>2
<1>2. ASSUME NEW r \in Reqs, LoadUser(r) PROVE Gone'
  <2>1. Shrinks
    BY <1>2, SameShrinks DEF LoadUser, rowVars, history
  <2> DEFINE l == [loc[r] EXCEPT !.user = None, !.dirty = TRUE]
  <2>2. l.user = None /\ ~Claim(r) /\ (Goto(r, "run", loc[r]) \/ Goto(r, "run", l))
    BY <1>2, <1>0 DEF LoadUser, Types, ReqsOK, Locals
  <2> HIDE DEF l
  <2>3. CASE Goto(r, "run", loc[r])
    BY <2>1, <2>2, <2>3, GoneStep DEF Claim
  <2>4. CASE Goto(r, "run", l)
    BY <2>1, <2>2, <2>4, GoneStep
  <2>5. QED  BY <2>2, <2>3, <2>4
<1>3. ASSUME NEW r \in Reqs, Touch(r) PROVE Gone'
  <2>1. Shrinks
    BY <1>3, SameShrinks DEF Touch, Refresh, rowVars, history
  <2>2. QED  BY <1>3, <2>1, GoneEnds DEF Touch
<1>4. ASSUME NEW r \in Reqs, NEW u \in Users, SigninRead(r, u) \/ ResetRequestRead(r, u) PROVE Gone'
  <2>1. Shrinks /\ ~Claim(r)
    BY <1>4, <1>0, SameShrinks DEF SigninRead, ResetRequestRead, rowVars, history
  <2> DEFINE k == [loc[r] EXCEPT !.subject = u, !.epoch = password[u]]
             l == [loc[r] EXCEPT !.subject = u]
  <2>2. /\ k.dirty = loc[r].dirty /\ k.user = loc[r].user /\ l.dirty = loc[r].dirty /\ l.user = loc[r].user
        /\ Goto(r, "si_regen", k) \/ Goto(r, "rr_create", l)
    BY <1>4 DEF SigninRead, ResetRequestRead, Types, ReqsOK, Locals
  <2> HIDE DEF k, l
  <2>3. ASSUME Goto(r, "si_regen", k) PROVE Gone'
    BY <2>1, <2>2, <2>3, GoneStep DEF Claim
  <2>4. ASSUME Goto(r, "rr_create", l) PROVE Gone'
    BY <2>1, <2>2, <2>4, GoneStep DEF Claim
  <2>5. QED  BY <2>2, <2>3, <2>4
<1>5. ASSUME NEW r \in Reqs, NEW t \in Tokens, ConfirmRead(r, t) PROVE Gone'
  <2>1. Shrinks /\ ~Claim(r)
    BY <1>5, <1>0, SameShrinks DEF ConfirmRead, rowVars, history
  <2> DEFINE l == [loc[r] EXCEPT !.token = t, !.subject = tokOf[t]]
  <2>2. Goto(r, "rc_commit", l) /\ l.dirty = loc[r].dirty /\ l.user = loc[r].user
    BY <1>5 DEF ConfirmRead, Types, ReqsOK, Locals
  <2> HIDE DEF l
  <2>3. QED  BY <2>1, <2>2, GoneStep DEF Claim
<1>6. ASSUME NEW r \in Reqs, PasswordRead(r) PROVE Gone'
  <2>1. Shrinks /\ ~Claim(r)
    BY <1>6, <1>0, SameShrinks DEF PasswordRead, rowVars, history
  <2> DEFINE l == [loc[r] EXCEPT !.subject = loc[r].user, !.epoch = password[loc[r].user]]
  <2>2. Goto(r, "mp_write", l) /\ l.dirty = loc[r].dirty /\ l.user = loc[r].user
    BY <1>6 DEF PasswordRead, Types, ReqsOK, Locals
  <2> HIDE DEF l
  <2>3. QED  BY <2>1, <2>2, GoneStep DEF Claim
<1>7. ASSUME NEW r \in Reqs, NEW u \in Users, SignupCommit(r, u) PROVE Gone'
  <2>1. Shrinks
    BY <1>7, SameShrinks DEF SignupCommit, rowVars, history
  <2>2. CASE End(r)
    BY <2>1, <2>2, GoneEnds
  <2>3. CASE Goto(r, "end", [loc[r] EXCEPT !.user = u, !.dirty = TRUE])
    <3> DEFINE l == [loc[r] EXCEPT !.user = u, !.dirty = TRUE]
    <3>1. l.sid \in everSid \cup {None} /\ l.user = u /\ u \notin everUser
      BY <1>7 DEF SignupCommit, Types, ReqsOK, Refs, Locals
    <3> HIDE DEF l
    <3>2. Goto(r, "end", l)
      BY <2>3 DEF l
    <3>3. QED  BY <2>1, <3>1, <3>2, GoneStep
  <2>4. QED  BY <1>7, <2>2, <2>3 DEF SignupCommit
<1>8. ASSUME NEW r \in Reqs, PasswordWrite(r) \/ \E t \in Tokens : ResetRequestCreate(r, t) PROVE Gone'
  <2>1. Shrinks
    BY <1>8, SameShrinks DEF PasswordWrite, ResetRequestCreate, rowVars, history
  <2>2. QED  BY <1>8, <2>1, GoneEnds DEF PasswordWrite, ResetRequestCreate
<1>9. ASSUME NEW r \in Reqs, SigninRegen(r) PROVE Gone'
  <2>1. Shrinks
    BY <1>9, OwnSid, RemoveShrinks DEF SigninRegen
  <2> DEFINE l == [Blank EXCEPT !.user = loc[r].subject, !.dirty = TRUE, !.epoch = loc[r].epoch]
  <2>2. Goto(r, "end", l) /\ l.sid = None
    BY <1>9 DEF SigninRegen, Blank
  <2> HIDE DEF l
  <2>3. l.dirty /\ l.user # None => "end" = "end" /\ (l.sid = None \/ (l.sid \in everSid /\ l.user \notin everUser))
    BY <2>2
  <2>4. QED  BY <2>1, <2>2, <2>3, GoneStep, Zenon
<1>10. ASSUME NEW r \in Reqs, Signout(r) PROVE Gone'
  <2>1. Shrinks
    BY <1>10, OwnSid, RemoveShrinks DEF Signout
  <2>2. QED  BY <1>10, <2>1, GoneEnds DEF Signout
<1>11. ASSUME NEW r \in Reqs, ConfirmCommit(r) PROVE Gone'
  <2>1. SessionsOf(loc[r].subject, r) \in SUBSET Sids
    BY DEF SessionsOf, Types, RowsOK
  <2>2. Shrinks
    BY <1>11, <2>1, RemoveShrinks, SameShrinks DEF ConfirmCommit, rowVars, history
  <2>3. QED  BY <1>11, <2>2, GoneEnds DEF ConfirmCommit
<1>12. ASSUME NEW s \in Sids, Drop(s) PROVE Gone'
  <2>1. Shrinks
    BY <1>12, RemoveShrinks DEF Drop
  <2>2. QED  BY <1>12, <2>1, GoneTables DEF Drop
<1>13. CASE Prune
  <2>1. Prunable \in SUBSET Sids
    BY DEF Prunable, Types, RowsOK
  <2>2. Shrinks
    BY <1>13, <2>1, RemoveShrinks DEF Prune
  <2>3. QED  BY <1>13, <2>2, GoneTables DEF Prune
<1>14. CASE \/ \E s \in Sids : Expire(s)
            \/ \E t \in Tokens : TokenExpire(t)
            \/ (\E u \in Users : SetDisabled(u) \/ DeleteUser(u)) \/ UNCHANGED vars
  <2>1. UNCHANGED <<pc, loc, rows, owner, everSid, ended>>
    BY <1>14 DEF Expire, TokenExpire, SetDisabled, DeleteUser, vars, rowVars, history
  <2>2. QED  BY <2>1, SameShrinks, GoneTables
<1>15. CASE Restart
  <2>1. Claims'
    BY <1>15, BlankLocal DEF Restart, Claims, Claim
  <2>2. QED  BY <1>15, <2>1 DEF Restart, Gone, EndedStays, rowVars, history
<1>16. ASSUME NEW r \in Reqs, Session(r) PROVE Gone'
  BY <1>1, <1>2, <1>3, <1>16, GoneSave DEF Session
<1>17. ASSUME NEW r \in Reqs, Credentials(r) PROVE Gone'
  BY <1>4, <1>5, <1>6, <1>7, <1>8, <1>9, <1>10, <1>11, <1>17, Zenon DEF Credentials
<1>18. QED
  BY <1>12, <1>13, <1>14, <1>15, <1>16, <1>17 DEF Next

\* A session that was removed never authenticates its user again, whatever
\* requests were using it (session-store.ts:63, auth.ts:130-155,241).
THEOREM EndedStaysHolds == Spec => []EndedStays
<1>1. Init => Gone
  BY BlankLocal DEF Init, Gone, EndedStays, Claims, Claim
<1>2. Gone => EndedStays
  BY DEF Gone
<1>3. QED  BY <1>1, <1>2, GoneInvariant, TypesAlways, PTL DEF Spec

-----------------------------------------------------------------------------
(* a reset ends older credentials *)

\* What a request proved is the password of the last reset, unless it was overtaken.
Proven ==
    /\ \A u \in Users \ everUser : password[u] = 0 /\ resets[u] = 0
    /\ \A r \in Reqs : pc[r] \in {"user", "run"} => loc[r].epoch = 0
    /\ \A r \in Reqs, u \in accounts \ overtaken : Pending(r, u) => loc[r].epoch = resets[u]
    /\ OldCredentialsDie

\* The table of sessions loses rows at most.
Kept == \A x \in rows' : x \in rows /\ owner'[x] = owner[x] /\ epoch'[x] = epoch[x]

LEMMA RemoveKept == ASSUME Types, NEW S \in SUBSET Sids, Remove(S) PROVE Kept
BY DEF Remove, Kept, Types, RowsOK

LEMMA KeptCredentials ==
    ASSUME OldCredentialsDie, Kept, accounts' \subseteq accounts,
           UNCHANGED <<password, resets, overtaken>>
    PROVE  OldCredentialsDie'
BY DEF OldCredentialsDie, Kept

\* What the new step of a request proves.
Proves(step, l, u) ==
    \/ step \in {"si_regen", "mp_write"} /\ l.subject = u
    \/ step = "end" /\ l.dirty /\ l.user = u

LEMMA ProvenStep ==
    ASSUME Types, Proven, Kept, UNCHANGED <<userVars, resets, overtaken>>,
           NEW r \in Reqs, NEW step, NEW l, Goto(r, step, l),
           step \in {"user", "run"} => l.epoch = 0,
           \A u \in accounts \ overtaken : Proves(step, l, u) => l.epoch = resets[u]
    PROVE  Proven'
<1>1. pc'[r] = step /\ loc'[r] = l /\ \A q \in Reqs \ {r} : pc'[q] = pc[q] /\ loc'[q] = loc[q]
  BY DEF Goto, Types, ReqsOK
<1>2. UNCHANGED <<accounts, everUser, password, resets, overtaken>>
  BY DEF userVars
<1>3. OldCredentialsDie'
  BY <1>2, KeptCredentials DEF Proven
<1>4. \A u \in Users \ everUser' : password'[u] = 0 /\ resets'[u] = 0
  BY <1>2 DEF Proven
<1>5. \A q \in Reqs : pc'[q] \in {"user", "run"} => loc'[q].epoch = 0
  BY <1>1 DEF Proven
<1>6. ASSUME NEW q \in Reqs, NEW u \in accounts' \ overtaken', Pending(q, u)'
      PROVE  loc'[q].epoch = resets'[u]
  <2>1. CASE q = r
    BY <2>1, <1>1, <1>2, <1>6 DEF Pending, Proves
  <2>2. CASE q # r
    <3>1. Pending(q, u)
      BY <2>2, <1>1, <1>6 DEF Pending
    <3>2. QED  BY <2>2, <3>1, <1>1, <1>2 DEF Proven
  <2>3. QED  BY <2>1, <2>2
<1>7. QED  BY <1>3, <1>4, <1>5, <1>6 DEF Proven

LEMMA ProvenEnds ==
    ASSUME Types, Proven, Kept, UNCHANGED <<userVars, resets, overtaken>>,
           NEW r \in Reqs, End(r) \/ Finish(r)
    PROVE  Proven'
<1>0. None \notin accounts
  BY SessionsAssumption DEF Types, UsersOK
<1>1. CASE End(r)
  <2> DEFINE l == [Blank EXCEPT !.sid = loc[r].sid, !.dirty = loc[r].dirty]
  <2>1. l.user = None /\ Goto(r, "end", l)
    BY <1>1 DEF End, Blank
  <2> HIDE DEF l
  <2>2. \A u \in accounts \ overtaken : ~Proves("end", l, u)
    BY <2>1, <1>0 DEF Proves
  <2>3. QED  BY <2>1, <2>2, ProvenStep
<1>2. CASE Finish(r)
  <2>1. \A u \in accounts \ overtaken : ~Proves("idle", Blank, u)
    BY DEF Proves
  <2>2. QED  BY <1>2, <2>1, ProvenStep DEF Finish
<1>3. QED  BY <1>1, <1>2

\* Steps of no request.
LEMMA ProvenTables ==
    ASSUME Types, Proven, Kept, UNCHANGED <<pc, loc, everUser, password, resets, overtaken>>,
           accounts' \subseteq accounts
    PROVE  Proven'
<1>1. OldCredentialsDie'
  BY KeptCredentials DEF Proven
<1>2. QED  BY <1>1 DEF Proven, Pending

LEMMA ProvenSave ==
    ASSUME Types, Gone, Proven, NEW r \in Reqs, NEW s \in Sids, Save(r, s) PROVE Proven'
<1>1. /\ rows' = rows \cup {s} /\ owner'[s] = loc[r].user /\ epoch'[s] = loc[r].epoch
      /\ \A x \in Sids \ {s} : owner'[x] = owner[x] /\ epoch'[x] = epoch[x]
  BY DEF Save, Upsert, Types, RowsOK
<1>2. UNCHANGED <<accounts, everUser, password, resets, overtaken>>
  BY DEF Save, userVars, history
<1>3. /\ pc'[r] = "idle" /\ loc'[r] = Blank
      /\ \A q \in Reqs \ {r} : pc'[q] = pc[q] /\ loc'[q] = loc[q]
  BY DEF Save, Finish, Goto, Types, ReqsOK
<1>4. \A u \in accounts \ overtaken : loc[r].user = u => loc[r].epoch = resets[u]
  <2> SUFFICES ASSUME NEW u \in accounts \ overtaken, loc[r].user = u PROVE loc[r].epoch = resets[u]
    OBVIOUS
  <2>1. u # None /\ loc[r].dirty
    BY SessionsAssumption DEF Types, UsersOK, Save
  <2>2. pc[r] = "end"
    BY <2>1 DEF Gone, Claims, Claim
  <2>3. QED  BY <2>1, <2>2 DEF Proven, Pending
<1>5. OldCredentialsDie'
  BY <1>1, <1>2, <1>4 DEF Proven, OldCredentialsDie, Types, RowsOK
<1>6. \A q \in Reqs, u \in Users : Pending(q, u)' => q # r /\ Pending(q, u)
  BY <1>3 DEF Pending
<1>7. \A q \in Reqs : pc'[q] \in {"user", "run"} => loc'[q].epoch = 0
  BY <1>3 DEF Proven
<1>8. accounts \subseteq Users
  BY DEF Types, UsersOK
<1>9. QED  BY <1>2, <1>3, <1>5, <1>6, <1>7, <1>8 DEF Proven

LEMMA ProvenSignup ==
    ASSUME Types, Proven, NEW r \in Reqs, NEW u \in Users, SignupCommit(r, u) PROVE Proven'
<1>1. /\ pc[r] = "run" /\ u \notin everUser /\ accounts' = accounts \cup {u} /\ everUser' = everUser \cup {u}
      /\ UNCHANGED <<password, resets, overtaken, rows, owner, epoch>>
      /\ \A q \in Reqs \ {r} : pc'[q] = pc[q] /\ loc'[q] = loc[q]
      /\ pc'[r] = "end"
  BY DEF SignupCommit, End, Goto, Types, ReqsOK, rowVars, history
<1>2. password[u] = 0 /\ resets[u] = 0 /\ loc[r].epoch = 0
  BY <1>1 DEF Proven
<1>3. loc'[r].epoch = 0 /\ loc'[r].user \in {u, None}
  <2>1. loc[r] \in Locals
    BY DEF Types, ReqsOK
  <2>2. CASE loc' = [loc EXCEPT ![r] = [loc[r] EXCEPT !.user = u, !.dirty = TRUE]]
    BY <1>2, <2>1, <2>2 DEF Locals, Types, ReqsOK
  <2>3. CASE loc' = [loc EXCEPT ![r] = [Blank EXCEPT !.sid = loc[r].sid, !.dirty = loc[r].dirty]]
    BY <2>3 DEF Blank, Types, ReqsOK
  <2>4. QED  BY <2>2, <2>3 DEF SignupCommit, End, Goto
<1>4. /\ \A s \in rows : owner[s] # u
      /\ \A q \in Reqs : loc[q].user # u /\ loc[q].subject # u
  BY <1>1, SessionsAssumption DEF Types, RowsOK, ReqsOK, Refs
<1>5. OldCredentialsDie'
  BY <1>1, <1>2, <1>4 DEF Proven, OldCredentialsDie
<1>6. ASSUME NEW q \in Reqs, NEW v \in accounts' \ overtaken', Pending(q, v)'
      PROVE  loc'[q].epoch = resets'[v]
  <2>0. None \notin Users /\ accounts' \subseteq Users
    BY <1>1, SessionsAssumption DEF Types, UsersOK
  <2>1. CASE q = r
    BY <2>0, <2>1, <1>1, <1>2, <1>3, <1>6 DEF Pending
  <2>2. CASE q # r
    <3>1. Pending(q, v) /\ v # u
      BY <2>2, <1>1, <1>4, <1>6 DEF Pending
    <3>2. QED  BY <2>2, <3>1, <1>1, <1>6 DEF Proven
  <2>3. QED  BY <2>1, <2>2
<1>7. QED  BY <1>1, <1>5, <1>6 DEF Proven

LEMMA ProvenConfirm ==
    ASSUME Types, Proven, NEW r \in Reqs, ConfirmCommit(r) PROVE Proven'
<1> DEFINE u == loc[r].subject
<1>1. /\ UNCHANGED <<accounts, everUser>> /\ End(r)
  BY DEF ConfirmCommit
<1>2. CASE u \notin accounts
  <2>1. UNCHANGED <<userVars, resets, overtaken>> /\ Kept
    BY <1>2 DEF ConfirmCommit, userVars, rowVars, history, Kept
  <2>2. QED  BY <1>1, <2>1, ProvenEnds
<1>3. CASE u \in accounts
  <2>1. u \in everUser /\ u \in Users /\ None \notin Users /\ accounts \subseteq Users /\ resets \in [Users -> Nat]
        /\ password \in [Users -> Nat]
    BY <1>3, SessionsAssumption DEF Types, UsersOK
  <2>2. /\ resets' = [resets EXCEPT ![u] = @ + 1] /\ password' = [password EXCEPT ![u] = resets[u] + 1]
        /\ Remove(SessionsOf(u, r))
        /\ overtaken' = IF \E s \in Reqs : Pending(s, u) THEN overtaken \cup {u} ELSE overtaken
    BY <1>3 DEF ConfirmCommit
  <2>3. \A v \in Users \ {u} : resets'[v] = resets[v] /\ password'[v] = password[v]
    BY <2>1, <2>2
  <2>4. resets'[u] = password'[u]
    BY <2>1, <2>2
  <2>5. \A x \in rows' : x \in rows /\ owner[x] # u /\ owner'[x] = owner[x] /\ epoch'[x] = epoch[x]
    BY <2>2 DEF Remove, SessionsOf, Types, RowsOK
  <2>6. OldCredentialsDie'
    BY <1>1, <2>1, <2>2, <2>3, <2>4, <2>5 DEF Proven, OldCredentialsDie
  <2>7. /\ pc'[r] = "end" /\ loc'[r].user = None
        /\ \A q \in Reqs \ {r} : pc'[q] = pc[q] /\ loc'[q] = loc[q]
    BY <1>1 DEF End, Goto, Blank, Types, ReqsOK
  <2>8. ASSUME NEW q \in Reqs, NEW v \in accounts' \ overtaken', Pending(q, v)'
        PROVE  loc'[q].epoch = resets'[v]
    <3>1. q # r /\ Pending(q, v)
      BY <1>1, <2>1, <2>7, <2>8 DEF Pending
    <3>2. v # u /\ v \in accounts \ overtaken
      BY <1>1, <2>2, <2>8, <3>1
    <3>3. QED  BY <3>1, <3>2, <2>1, <2>3, <2>7 DEF Proven
  <2>9. QED  BY <1>1, <2>1, <2>3, <2>6, <2>7, <2>8 DEF Proven
<1>4. QED  BY <1>2, <1>3

LEMMA ProvenPassword ==
    ASSUME Types, Proven, NEW r \in Reqs, PasswordWrite(r) PROVE Proven'
<1> DEFINE u == loc[r].subject
<1>1. UNCHANGED <<accounts, everUser, rows, owner, epoch, resets, overtaken>> /\ End(r) /\ pc[r] = "mp_write"
  BY DEF PasswordWrite, rowVars, history
<1>2. u \in accounts \ overtaken => loc[r].epoch = resets[u]
  BY <1>1 DEF Proven, Pending
<1>3. /\ accounts \subseteq Users /\ accounts \subseteq everUser /\ password \in [Users -> Nat]
      /\ None \notin accounts
  BY SessionsAssumption DEF Types, UsersOK
<1>4. \A v \in Users : password'[v] = IF v = u /\ v \in accounts THEN loc[r].epoch ELSE password[v]
  BY <1>3 DEF PasswordWrite
<1>5. OldCredentialsDie'
  BY <1>1, <1>2, <1>3, <1>4 DEF Proven, OldCredentialsDie
<1>6. /\ pc'[r] = "end" /\ loc'[r].user = None
      /\ \A q \in Reqs \ {r} : pc'[q] = pc[q] /\ loc'[q] = loc[q]
  BY <1>1 DEF End, Goto, Blank, Types, ReqsOK
<1>7. ASSUME NEW q \in Reqs, NEW v \in accounts \ overtaken, Pending(q, v)'
      PROVE  loc'[q].epoch = resets[v]
  <2>1. q # r /\ Pending(q, v)
    BY <1>3, <1>6, <1>7 DEF Pending
  <2>2. QED  BY <2>1, <1>6 DEF Proven
<1>8. QED  BY <1>1, <1>3, <1>4, <1>5, <1>6, <1>7 DEF Proven

LEMMA ProvenInvariant == Types /\ Gone /\ Proven /\ [Next]_vars => Proven'
<1> SUFFICES ASSUME Types, Gone, Proven, [Next]_vars PROVE Proven'
  OBVIOUS
<1>0. \A u \in accounts \ overtaken : password[u] = resets[u]
  BY DEF Proven, OldCredentialsDie
<1>1. ASSUME NEW r \in Reqs, NEW c \in Sids \cup {None}, Load(r, c) PROVE Proven'
  <2>1. Kept /\ UNCHANGED <<userVars, resets, overtaken>>
    BY <1>1 DEF Load, Kept, rowVars, history
  <2>2. ASSUME NEW step, NEW l, Goto(r, step, l), l.epoch = 0, step \in {"run", "user"} PROVE Proven'
    <3>1. \A u \in accounts \ overtaken : ~Proves(step, l, u)
      BY <2>2 DEF Proves
    <3>2. QED  BY <2>1, <2>2, <3>1, ProvenStep
  <2>3. /\ Blank.epoch = 0 /\ [Blank EXCEPT !.sid = c].epoch = 0
        /\ [Blank EXCEPT !.sid = c, !.user = owner[c]].epoch = 0
    BY DEF Blank
  <2>4. \/ Goto(r, "run", Blank) \/ Goto(r, "run", [Blank EXCEPT !.sid = c])
        \/ Goto(r, "user", [Blank EXCEPT !.sid = c, !.user = owner[c]])
    BY <1>1 DEF Load
  <2>5. QED  BY <2>2, <2>3, <2>4
<1>2. ASSUME NEW r \in Reqs, LoadUser(r) PROVE Proven'
  <2>1. Kept /\ UNCHANGED <<userVars, resets, overtaken>>
    BY <1>2 DEF LoadUser, Kept, rowVars, history
  <2> DEFINE l == [loc[r] EXCEPT !.user = None, !.dirty = TRUE]
  <2>2. loc[r].epoch = 0 /\ l.epoch = 0 /\ (Goto(r, "run", loc[r]) \/ Goto(r, "run", l))
    BY <1>2 DEF LoadUser, Proven, Types, ReqsOK, Locals
  <2> HIDE DEF l
  <2>3. \A x, u : ~Proves("run", x, u)
    BY DEF Proves
  <2>4. ASSUME Goto(r, "run", loc[r]) PROVE Proven'
    BY <2>1, <2>2, <2>3, <2>4, ProvenStep
  <2>5. ASSUME Goto(r, "run", l) PROVE Proven'
    BY <2>1, <2>2, <2>3, <2>5, ProvenStep
  <2>6. QED  BY <2>2, <2>4, <2>5
<1>3. ASSUME NEW r \in Reqs, Touch(r) PROVE Proven'
  <2>1. Kept /\ UNCHANGED <<userVars, resets, overtaken>> /\ Finish(r)
    BY <1>3 DEF Touch, Refresh, Kept, rowVars, history
  <2>2. QED  BY <2>1, ProvenEnds
<1>4. ASSUME NEW r \in Reqs, NEW u \in Users, SigninRead(r, u) PROVE Proven'
  <2>1. Kept /\ UNCHANGED <<userVars, resets, overtaken>>
    BY <1>4 DEF SigninRead, Kept, rowVars, history
  <2> DEFINE l == [loc[r] EXCEPT !.subject = u, !.epoch = password[u]]
  <2>2. Goto(r, "si_regen", l) /\ l.subject = u /\ l.epoch = password[u]
    BY <1>4 DEF SigninRead, Types, ReqsOK, Locals
  <2> HIDE DEF l
  <2>3. \A v \in accounts \ overtaken : Proves("si_regen", l, v) => l.epoch = resets[v]
    BY <2>2, <1>0 DEF Proves
  <2>4. QED  BY <2>1, <2>2, <2>3, ProvenStep
<1>5. ASSUME NEW r \in Reqs, PasswordRead(r) PROVE Proven'
  <2>1. Kept /\ UNCHANGED <<userVars, resets, overtaken>>
    BY <1>5 DEF PasswordRead, Kept, rowVars, history
  <2> DEFINE l == [loc[r] EXCEPT !.subject = loc[r].user, !.epoch = password[loc[r].user]]
  <2>2. Goto(r, "mp_write", l) /\ l.subject = loc[r].user /\ l.epoch = password[loc[r].user]
    BY <1>5 DEF PasswordRead, Types, ReqsOK, Locals
  <2> HIDE DEF l
  <2>3. \A v \in accounts \ overtaken : Proves("mp_write", l, v) => l.epoch = resets[v]
    BY <2>2, <1>0 DEF Proves
  <2>4. QED  BY <2>1, <2>2, <2>3, ProvenStep
<1>6. ASSUME NEW r \in Reqs, NEW u \in Users, ResetRequestRead(r, u) PROVE Proven'
  <2>1. Kept /\ UNCHANGED <<userVars, resets, overtaken>>
    BY <1>6 DEF ResetRequestRead, Kept, rowVars, history
  <2>2. Goto(r, "rr_create", [loc[r] EXCEPT !.subject = u])
    BY <1>6 DEF ResetRequestRead
  <2>3. \A x, v : ~Proves("rr_create", x, v)
    BY DEF Proves
  <2>4. QED  BY <2>1, <2>2, <2>3, ProvenStep
<1>7. ASSUME NEW r \in Reqs, NEW t \in Tokens, ConfirmRead(r, t) PROVE Proven'
  <2>1. Kept /\ UNCHANGED <<userVars, resets, overtaken>>
    BY <1>7 DEF ConfirmRead, Kept, rowVars, history
  <2>2. Goto(r, "rc_commit", [loc[r] EXCEPT !.token = t, !.subject = tokOf[t]])
    BY <1>7 DEF ConfirmRead
  <2>3. \A x, v : ~Proves("rc_commit", x, v)
    BY DEF Proves
  <2>4. QED  BY <2>1, <2>2, <2>3, ProvenStep
<1>8. ASSUME NEW r \in Reqs, NEW t \in Tokens, ResetRequestCreate(r, t) PROVE Proven'
  <2>1. Kept /\ UNCHANGED <<userVars, resets, overtaken>> /\ End(r)
    BY <1>8 DEF ResetRequestCreate, Kept, rowVars, history
  <2>2. QED  BY <2>1, ProvenEnds
<1>9. ASSUME NEW r \in Reqs, SigninRegen(r) PROVE Proven'
  <2>1. Kept /\ UNCHANGED <<userVars, resets, overtaken>> /\ pc[r] = "si_regen"
    BY <1>9, OwnSid, RemoveKept DEF SigninRegen
  <2> DEFINE l == [Blank EXCEPT !.user = loc[r].subject, !.dirty = TRUE, !.epoch = loc[r].epoch]
  <2>2. Goto(r, "end", l) /\ l.user = loc[r].subject /\ l.epoch = loc[r].epoch
    BY <1>9 DEF SigninRegen, Blank
  <2> HIDE DEF l
  <2>3. \A v \in accounts \ overtaken : Proves("end", l, v) => l.epoch = resets[v]
    BY <2>1, <2>2 DEF Proves, Proven, Pending
  <2>4. QED  BY <2>1, <2>2, <2>3, ProvenStep
<1>10. ASSUME NEW r \in Reqs, Signout(r) PROVE Proven'
  <2>1. Kept /\ UNCHANGED <<userVars, resets, overtaken>> /\ Finish(r)
    BY <1>10, OwnSid, RemoveKept DEF Signout
  <2>2. QED  BY <2>1, ProvenEnds
<1>11. ASSUME NEW s \in Sids, Drop(s) PROVE Proven'
  <2>1. Kept
    BY <1>11, RemoveKept DEF Drop
  <2>2. QED  BY <1>11, <2>1, ProvenTables DEF Drop, userVars
<1>12. CASE Prune
  <2>1. Kept
    <3>1. Prunable \in SUBSET Sids
      BY DEF Prunable, Types, RowsOK
    <3>2. QED  BY <1>12, <3>1, RemoveKept DEF Prune
  <2>2. QED  BY <1>12, <2>1, ProvenTables DEF Prune, userVars
<1>13. CASE \/ \E s \in Sids : Expire(s)
            \/ \E t \in Tokens : TokenExpire(t)
            \/ (\E u \in Users : SetDisabled(u) \/ DeleteUser(u)) \/ UNCHANGED vars
  <2>1. /\ UNCHANGED <<pc, loc, rows, owner, epoch, everUser, password, resets, overtaken>>
        /\ accounts' \subseteq accounts
    BY <1>13 DEF Expire, TokenExpire, SetDisabled, DeleteUser, vars, userVars, rowVars, history
  <2>2. Kept
    BY <2>1 DEF Kept
  <2>3. QED  BY <2>1, <2>2, ProvenTables
<1>14. CASE Restart
  <2>1. UNCHANGED <<accounts, everUser, password, resets, overtaken>> /\ OldCredentialsDie'
    BY <1>14 DEF Restart, Proven, OldCredentialsDie, userVars, rowVars, history
  <2>2. \A r \in Reqs : pc'[r] = "idle"
    BY <1>14 DEF Restart
  <2>3. QED  BY <2>1, <2>2 DEF Proven, Pending
<1>15. ASSUME NEW r \in Reqs, Session(r) PROVE Proven'
  BY <1>1, <1>2, <1>3, <1>15, ProvenSave DEF Session
<1>16. ASSUME NEW r \in Reqs, Credentials(r) PROVE Proven'
  BY <1>4, <1>5, <1>6, <1>7, <1>8, <1>9, <1>10, <1>16, ProvenSignup, ProvenConfirm, ProvenPassword, Zenon
     DEF Credentials
<1>17. QED  BY <1>11, <1>12, <1>13, <1>14, <1>15, <1>16 DEF Next

\* After a reset no session opened with an older password is left, and no older
\* password is in force, but for accounts that were reset while a request held
\* proof of the older one (auth.ts:237-246, me.ts:48-62).
THEOREM OldCredentialsDieHolds == Spec => []OldCredentialsDie
<1>1. Init => Gone
  BY BlankLocal DEF Init, Gone, EndedStays, Claims, Claim
<1>2. Init => Proven
  BY DEF Init, Proven, Pending, OldCredentialsDie
<1>3. Proven => OldCredentialsDie
  BY DEF Proven
<1>4. QED  BY <1>1, <1>2, <1>3, TypesAlways, GoneInvariant, ProvenInvariant, PTL DEF Spec

-----------------------------------------------------------------------------
(* the promise without its exception *)

\* No reset of u is committed while a request holds proof of u's older password.
ResetAlone(u) == \A r, s \in Reqs :
    pc[r] = "rc_commit" /\ loc[r].subject = u => ~Pending(s, u)
NotOvertaken(u) == u \notin overtaken
OldDie(u) == u \in accounts =>
    /\ password[u] = resets[u]
    /\ \A s \in rows : owner[s] = u => epoch[s] = resets[u]

LEMMA OvertakenOnlyBy ==
    ASSUME Next
    PROVE  \/ overtaken' = overtaken
           \/ \E r, s \in Reqs : /\ pc[r] = "rc_commit" /\ Pending(s, loc[r].subject)
                                 /\ overtaken' = overtaken \cup {loc[r].subject}
<1>1. ASSUME NEW r \in Reqs, Session(r) PROVE overtaken' = overtaken
  BY <1>1 DEF Session, Load, LoadUser, Touch, Save, history
<1>2. ASSUME NEW r \in Reqs, ConfirmCommit(r)
      PROVE  \/ overtaken' = overtaken
             \/ \E s \in Reqs : /\ pc[r] = "rc_commit" /\ Pending(s, loc[r].subject)
                                /\ overtaken' = overtaken \cup {loc[r].subject}
  BY <1>2 DEF ConfirmCommit, history
<1>3. ASSUME NEW r \in Reqs, Credentials(r), ~ConfirmCommit(r) PROVE overtaken' = overtaken
  BY <1>3 DEF Credentials, SigninRead, SignupCommit, ResetRequestRead, ResetRequestCreate, ConfirmRead,
     SigninRegen, Signout, PasswordRead, PasswordWrite, history
<1>4. ASSUME \/ \E s \in Sids : Drop(s) \/ Expire(s)
             \/ \E t \in Tokens : TokenExpire(t)
             \/ \E u \in Users : SetDisabled(u) \/ DeleteUser(u)
             \/ Prune \/ Restart
      PROVE  overtaken' = overtaken
  BY <1>4 DEF Drop, Expire, TokenExpire, SetDisabled, DeleteUser, Prune, Restart, history
<1>5. QED  BY <1>1, <1>2, <1>3, <1>4 DEF Next

LEMMA NeverOvertaken ==
    ASSUME NEW u \in Users
    PROVE  Spec /\ []ResetAlone(u) => []OldDie(u)
<1>1. Init => NotOvertaken(u)
  BY DEF Init, NotOvertaken
<1>2. ResetAlone(u) /\ NotOvertaken(u) /\ [Next]_vars => NotOvertaken(u)'
  BY OvertakenOnlyBy DEF ResetAlone, NotOvertaken, vars, history
<1>3. OldCredentialsDie /\ NotOvertaken(u) => OldDie(u)
  BY DEF OldCredentialsDie, NotOvertaken, OldDie
<1>4. QED  BY <1>1, <1>2, <1>3, OldCredentialsDieHolds, PTL DEF Spec

\* README.md:107 as it is written, for every account whose resets overlap no
\* request that has compared its older password and not finished
\* (auth.ts:116-145, me.ts:53-58): after a reset no session stays open and no
\* password in force that is older. What happens to other accounts is no matter.
THEOREM ResetEndsSessions == \A u \in Users : Spec /\ []ResetAlone(u) => []OldDie(u)
BY NeverOvertaken

-----------------------------------------------------------------------------
(* sessions in use stay *)

LEMMA OnlyRemoves ==
    ASSUME Types, Next, NEW s \in rows \ (stale \cup rows')
    PROVE  \/ s \in dropping
           \/ \E r \in Reqs :
                 \/ pc[r] \in {"run", "si_regen"} /\ loc[r].sid = s
                 \/ pc[r] = "rc_commit" /\ loc[r].subject = owner[s]
<1>1. ASSUME NEW r \in Reqs, Session(r) PROVE FALSE
  BY <1>1 DEF Session, Load, LoadUser, Touch, Refresh, Save, Upsert, rowVars
<1>2. ASSUME NEW r \in Reqs, SigninRegen(r) \/ Signout(r)
      PROVE  pc[r] \in {"run", "si_regen"} /\ loc[r].sid = s
  BY <1>2 DEF SigninRegen, Signout, Remove
<1>3. ASSUME NEW r \in Reqs, ConfirmCommit(r) PROVE pc[r] = "rc_commit" /\ loc[r].subject = owner[s]
  BY <1>3 DEF ConfirmCommit, Remove, SessionsOf, rowVars
<1>4. ASSUME NEW r \in Reqs, Credentials(r), ~(SigninRegen(r) \/ Signout(r) \/ ConfirmCommit(r)) PROVE FALSE
  BY <1>4 DEF Credentials, SigninRead, SignupCommit, ResetRequestRead, ResetRequestCreate, ConfirmRead,
     PasswordRead, PasswordWrite, rowVars
<1>5. ASSUME NEW x \in Sids, Drop(x) PROVE s \in dropping
  BY <1>5 DEF Drop, Remove
<1>6. CASE Prune
  BY <1>6 DEF Prune, Prunable, Remove
<1>7. CASE \/ \E x \in Sids : Expire(x)
           \/ \E t \in Tokens : TokenExpire(t)
           \/ (\E u \in Users : SetDisabled(u) \/ DeleteUser(u)) \/ Restart
  BY <1>7 DEF Expire, TokenExpire, SetDisabled, DeleteUser, Restart, rowVars
<1>8. QED  BY <1>1, <1>2, <1>3, <1>4, <1>5, <1>6, <1>7 DEF Next

\* A session that has not expired goes only by a request that carries it, by a
\* reset of its account, or by the delete of a load that had found it expired
\* (session-store.ts:25-28,94-96).
THEOREM LiveStaysHolds == Spec => LiveStays
<1>1. Types /\ [Next]_vars =>
        [\A s \in rows \ (stale \cup rows') :
            \/ s \in dropping
            \/ \E r \in Reqs :
                  \/ pc[r] \in {"run", "si_regen"} /\ loc[r].sid = s
                  \/ pc[r] = "rc_commit" /\ loc[r].subject = owner[s]]_vars
  BY OnlyRemoves
<1>2. QED  BY <1>1, TypesAlways, PTL DEF Spec, LiveStays

-----------------------------------------------------------------------------
(* what the routes promise *)

LEMMA HeldGoto ==
    ASSUME Types, NEW r \in Reqs, NEW step, NEW l, Goto(r, step, l)
    PROVE  /\ Held' = [Held EXCEPT ![r] = Proof(step, l)]
           /\ Proof(step, l) = Held[r] => Held' = Held
<1>1. pc' = [pc EXCEPT ![r] = step] /\ loc' = [loc EXCEPT ![r] = l]
  BY DEF Goto
<1>2. pc \in [Reqs -> PCs] /\ loc \in [Reqs -> Locals]
  BY DEF Types, ReqsOK
<1>3. Held' = [q \in Reqs |-> Proof(pc'[q], loc'[q])] /\ Held = [q \in Reqs |-> Proof(pc[q], loc[q])]
  BY DEF Held, Proof, Opens
<1>4. \A q \in Reqs : pc'[q] = (IF q = r THEN step ELSE pc[q]) /\ loc'[q] = (IF q = r THEN l ELSE loc[q])
  BY <1>1, <1>2
<1> HIDE DEF Held
<1>5. Held' = [Held EXCEPT ![r] = Proof(step, l)]
  BY <1>3, <1>4
<1>6. QED  BY <1>3, <1>5

\* A request outside the steps that hold a proof holds none.
LEMMA HeldNone ==
    ASSUME Types, NEW r \in Reqs,
           pc[r] \notin {"si_regen", "mp_write"}, pc[r] = "end" => ~Claim(r)
    PROVE  Held[r] = Opens(None, 0)
BY DEF Held, Proof, Opens, Claim, Types, ReqsOK, Locals

LEMMA ProofNone ==
    ASSUME NEW step, step \in {"idle", "user", "run", "rr_create", "rc_commit"}, NEW l
    PROVE  Proof(step, l) = Opens(None, 0)
BY DEF Proof

\* The end of a refused or finished handler gives up its proof.
LEMMA HeldEnds ==
    ASSUME Types, NEW r \in Reqs, End(r) \/ Finish(r)
    PROVE  /\ Held' = [Held EXCEPT ![r] = Opens(None, 0)]
           /\ Held[r] = Opens(None, 0) => Held' = Held
<1>1. CASE End(r)
  <2> DEFINE l == [Blank EXCEPT !.sid = loc[r].sid, !.dirty = loc[r].dirty]
  <2>1. Goto(r, "end", l) /\ l.user = None
    BY <1>1 DEF End, Blank
  <2> HIDE DEF l
  <2>2. Proof("end", l) = Opens(None, 0)
    BY <2>1 DEF Proof, Opens
  <2>3. QED  BY <2>1, <2>2, HeldGoto
<1>2. CASE Finish(r)
  BY <1>2, HeldGoto, ProofNone DEF Finish
<1>3. QED  BY <1>1, <1>2

LEMMA OpenIs ==
    ASSUME Types
    PROVE  /\ Open = [s \in Sids |-> Opens(owner[s], epoch[s])]
           /\ Open' = [s \in Sids |-> Opens(owner'[s], epoch'[s])]
           /\ \A s \in Sids : Open[s].user = owner[s]
           /\ \A S \in SUBSET Sids :
                 /\ C!Closed(S) = [s \in Sids |-> IF s \in S THEN Opens(None, 0) ELSE Open[s]]
                 /\ C!Open(S) = {s \in S : owner[s] # None}
           /\ C!Nothing = Opens(None, 0)
BY DEF Open, Opens, C!Closed, C!Open, C!Nothing

LEMMA RemoveCloses ==
    ASSUME Types, NEW S \in SUBSET Sids, Remove(S) PROVE C!Spend(S) /\ Open' = C!Closed(S)
<1>1. Open' = C!Closed(S)
  <2>1. \A s \in Sids : /\ owner'[s] = (IF s \in S THEN None ELSE owner[s])
                        /\ epoch'[s] = (IF s \in S THEN 0 ELSE epoch[s])
    BY DEF Remove
  <2>2. \A s \in Sids : Opens(owner'[s], epoch'[s]) = IF s \in S THEN Opens(None, 0) ELSE Opens(owner[s], epoch[s])
    BY <2>1
  <2>3. \A s \in Sids : Open[s] = Opens(owner[s], epoch[s])
    BY OpenIs, Zenon
  <2>4. Open' = [s \in Sids |-> IF s \in S THEN Opens(None, 0) ELSE Open[s]]
    BY <2>2, <2>3, OpenIs
  <2>5. QED  BY <2>4, OpenIs
<1>2. {<<s, owner[s]>> : s \in {x \in S \cap rows : owner[x] # None}} = {<<s, Open[s].user>> : s \in C!Open(S)}
  BY OpenIs DEF Types, RowsOK
<1>3. QED  BY <1>1, <1>2 DEF C!Spend, Remove

LEMMA Leaves ==
    ASSUME Types, NEW S \in SUBSET Sids, Remove(S), Held' = Held, UNCHANGED <<password, resets>>
    PROVE  C!Next
BY RemoveCloses DEF C!Leave, C!Next

\* Nothing that the promise speaks of moves.
Still == UNCHANGED <<owner, epoch, password, resets, ended>>
LEMMA StillStep == ASSUME Still, Held' = Held
                   PROVE  UNCHANGED <<Open, password, resets, Held, ended>>
BY DEF Still, Open, Opens

LEMMA ProveKeeps ==
    ASSUME Types, NEW r \in Reqs, NEW u \in Users, NEW step, NEW l, Goto(r, step, l), Still,
           Held[r] = Opens(None, 0), Proof(step, l) = Opens(u, password[u])
    PROVE  C!Next
<1>1. Opens(u, password[u]) = [user |-> u, number |-> password[u]]
  BY SessionsAssumption DEF Opens
<1>2. Held' = [Held EXCEPT ![r] = Opens(u, password[u])]
  BY HeldGoto
<1>3. UNCHANGED <<Open, password, resets, ended>>
  BY DEF Still, Open, Opens
<1>4. C!Prove(r, u)
  BY <1>1, <1>2, <1>3, OpenIs DEF C!Prove
<1>5. QED  BY <1>4 DEF C!Next

LEMMA SaveKeeps ==
    ASSUME Types, Gone, NEW r \in Reqs, NEW s \in Sids, Save(r, s)
    PROVE  C!Next
<1> DEFINE u == loc[r].user
<1>1. /\ UNCHANGED <<password, resets>> /\ loc[r].dirty /\ pc[r] \in {"run", "end"} /\ Finish(r)
      /\ ended' = ended \cup ({<<s, owner[s]>>} \ {<<s, None>>, <<s, u>>})
  BY DEF Save, userVars, Ending
<1>2. Open' = [Open EXCEPT ![s] = Opens(u, loc[r].epoch)]
  <2>1. \A x \in Sids : /\ owner'[x] = (IF x = s THEN u ELSE owner[x])
                        /\ epoch'[x] = (IF x = s THEN loc[r].epoch ELSE epoch[x])
    BY DEF Save, Upsert, Types, RowsOK
  <2>2. QED  BY <2>1, OpenIs
<1>3. CASE u = None
  <2>1. Held' = Held
    BY <1>1, <1>3, HeldNone, HeldEnds DEF Claim
  <2>2. Open' = C!Closed({s})
    BY <1>2, <1>3, OpenIs DEF Opens
  <2>3. C!Spend({s})
    BY <1>1, <1>3, OpenIs DEF C!Spend
  <2>4. C!Leave({s})
    BY <1>1, <2>1, <2>2, <2>3 DEF C!Leave
  <2>5. QED  BY <2>4 DEF C!Next
<1>4. CASE u # None
  <2>1. Claim(r) /\ pc[r] = "end"
    BY <1>1, <1>4 DEF Claim, Gone, Claims
  <2>2. Held[r] = Opens(u, loc[r].epoch)
    BY <2>1 DEF Held, Proof, Claim
  <2>3. owner[s] # u /\ <<s, u>> \notin ended
    <3>1. CASE loc[r].sid = None
      <4>1. s \notin everSid
        BY <3>1 DEF Save
      <4>2. QED  BY <4>1, <1>4 DEF Types, RowsOK, Gone
    <3>2. CASE loc[r].sid # None
      BY <3>2, <2>1 DEF Save, Gone, Claims
    <3>3. QED  BY <3>1, <3>2
  <2>4. C!Spend({s})
    BY <1>1, <2>3, OpenIs DEF C!Spend
  <2>5. Held[r].user = u /\ Held[r] # Opens(None, 0) /\ Open[s].user = owner[s]
    BY <2>2, <1>4, OpenIs DEF Opens
  <2>6. Held' = [Held EXCEPT ![r] = Opens(None, 0)]
    BY <1>1, HeldEnds
  <2>7. C!Enter(r, s)
    BY <1>1, <1>2, <2>2, <2>3, <2>4, <2>5, <2>6, OpenIs DEF C!Enter
  <2>8. QED  BY <2>7 DEF C!Next
<1>5. QED  BY <1>3, <1>4

LEMMA ConfirmKeeps ==
    ASSUME Types, Gone, NEW r \in Reqs, ConfirmCommit(r)
    PROVE  C!Next \/ UNCHANGED <<Open, password, resets, Held, ended>>
<1> DEFINE u == loc[r].subject
<1>1. Held' = Held
  BY HeldEnds, HeldNone DEF ConfirmCommit
<1>2. CASE u \notin accounts
  <2>1. Still
    BY <1>2 DEF ConfirmCommit, Still, rowVars, history
  <2>2. QED  BY <1>1, <2>1, StillStep
<1>3. CASE u \in accounts
  <2>1. /\ resets' = [resets EXCEPT ![u] = @ + 1] /\ password' = [password EXCEPT ![u] = resets[u] + 1]
        /\ Remove(SessionsOf(u, r)) /\ u \in Users
    BY <1>3 DEF ConfirmCommit, Types, UsersOK
  <2> DEFINE S == {s \in Sids : Open[s].user = u}
  <2>2. S = SessionsOf(u, r) /\ S \in SUBSET Sids
    BY <1>3, OpenIs, SessionsAssumption DEF SessionsOf, Types, RowsOK, UsersOK
  <2>3. C!Spend(S) /\ Open' = C!Closed(S)
    BY <2>1, <2>2, RemoveCloses
  <2>4. C!Reset(u)
    BY <1>1, <2>1, <2>3 DEF C!Reset
  <2>5. QED  BY <2>1, <2>4 DEF C!Next
<1>4. QED  BY <1>2, <1>3

LEMMA PasswordKeeps ==
    ASSUME Types, NEW r \in Reqs, PasswordWrite(r)
    PROVE  C!Next
<1> DEFINE u == loc[r].subject
<1>1. Held' = [Held EXCEPT ![r] = Opens(None, 0)] /\ pc[r] = "mp_write"
  BY HeldEnds DEF PasswordWrite
<1>2. UNCHANGED <<Open, resets, ended>>
  BY DEF PasswordWrite, rowVars, history, Open, Opens
<1>3. Held[r] = Opens(u, loc[r].epoch)
  BY <1>1 DEF Held, Proof
<1>4. CASE u \in accounts
  <2>1. u # None
    BY <1>4, SessionsAssumption DEF Types, UsersOK
  <2>2. Held[r].user = u /\ Held[r].number = loc[r].epoch /\ Held[r] # Opens(None, 0)
    BY <1>3, <2>1 DEF Opens
  <2>3. password' = [password EXCEPT ![u] = loc[r].epoch]
    BY <1>4 DEF PasswordWrite
  <2>4. C!Change(r)
    BY <1>1, <1>2, <2>2, <2>3, OpenIs DEF C!Change
  <2>5. QED  BY <2>4 DEF C!Next
<1>5. CASE u \notin accounts
  <2>1. password' = password
    BY <1>5 DEF PasswordWrite
  <2>2. Held' = [q \in Reqs |-> IF q \in {r} THEN Opens(None, 0) ELSE Held[q]]
    BY <1>1 DEF Held
  <2>3. C!Forget({r})
    BY <1>2, <2>1, <2>2, OpenIs DEF C!Forget
  <2>4. QED  BY <2>3 DEF C!Next
<1>6. QED  BY <1>4, <1>5

LEMMA SessionKeeps ==
    ASSUME Types, Gone, NEW r \in Reqs, Session(r)
    PROVE  C!Next \/ UNCHANGED <<Open, password, resets, Held, ended>>
<1>1. ASSUME NEW c \in Sids \cup {None}, Load(r, c) PROVE UNCHANGED <<Open, password, resets, Held, ended>>
  <2>1. Held[r] = Opens(None, 0) /\ Still
    BY <1>1, HeldNone DEF Load, Still, userVars, rowVars, history
  <2>2. ASSUME NEW step, NEW l, step \in {"user", "run"}, Goto(r, step, l) PROVE Held' = Held
    BY <2>1, <2>2, HeldGoto, ProofNone
  <2>3. \/ Goto(r, "run", Blank) \/ Goto(r, "run", [Blank EXCEPT !.sid = c])
        \/ Goto(r, "user", [Blank EXCEPT !.sid = c, !.user = owner[c]])
    BY <1>1 DEF Load
  <2>4. QED  BY <2>1, <2>2, <2>3, StillStep
<1>2. ASSUME LoadUser(r) PROVE UNCHANGED <<Open, password, resets, Held, ended>>
  <2>1. Held[r] = Opens(None, 0) /\ Still
    BY <1>2, HeldNone DEF LoadUser, Still, userVars, rowVars, history
  <2>2. ASSUME NEW l, Goto(r, "run", l) PROVE Held' = Held
    BY <2>1, <2>2, HeldGoto, ProofNone
  <2>3. QED  BY <1>2, <2>1, <2>2, StillStep DEF LoadUser
<1>3. ASSUME Touch(r) PROVE UNCHANGED <<Open, password, resets, Held, ended>>
  <2>1. Held[r] = Opens(None, 0) /\ Finish(r) /\ Still
    BY <1>3, HeldNone DEF Touch, Ending, Claim, Refresh, Still, userVars, rowVars, history
  <2>2. QED  BY <2>1, HeldEnds, StillStep
<1>4. QED  BY <1>1, <1>2, <1>3, SaveKeeps DEF Session

LEMMA CredentialsKeep ==
    ASSUME Types, Gone, Proven, NEW r \in Reqs, Credentials(r)
    PROVE  C!Next \/ UNCHANGED <<Open, password, resets, Held, ended>>
<1>0. pc[r] = "run" => Held[r] = Opens(None, 0)
  BY HeldNone
<1>1. ASSUME NEW u \in Users, SigninRead(r, u) PROVE C!Next
  <2> DEFINE l == [loc[r] EXCEPT !.subject = u, !.epoch = password[u]]
  <2>1. Goto(r, "si_regen", l) /\ l.subject = u /\ l.epoch = password[u] /\ Still /\ pc[r] = "run"
    BY <1>1 DEF SigninRead, Types, ReqsOK, Locals, Still, userVars, rowVars, history
  <2> HIDE DEF l
  <2>2. Proof("si_regen", l) = Opens(u, password[u])
    BY <2>1 DEF Proof
  <2>3. QED  BY <1>0, <2>1, <2>2, ProveKeeps
<1>2. ASSUME NEW u \in Users, SignupCommit(r, u) PROVE C!Next \/ UNCHANGED <<Open, password, resets, Held, ended>>
  <2>1. Still /\ pc[r] = "run" /\ password[u] = 0 /\ loc[r].epoch = 0
    BY <1>2 DEF SignupCommit, Still, rowVars, history, Proven
  <2>2. CASE End(r)
    BY <1>0, <2>1, <2>2, HeldEnds, StillStep
  <2>3. CASE Goto(r, "end", [loc[r] EXCEPT !.user = u, !.dirty = TRUE])
    <3> DEFINE l == [loc[r] EXCEPT !.user = u, !.dirty = TRUE]
    <3>1. Goto(r, "end", l) /\ l.user = u /\ l.dirty /\ l.epoch = password[u]
      BY <2>1, <2>3 DEF Types, ReqsOK, Locals
    <3> HIDE DEF l
    <3>2. Proof("end", l) = Opens(u, password[u])
      BY <3>1 DEF Proof
    <3>3. QED  BY <1>0, <2>1, <3>1, <3>2, ProveKeeps
  <2>4. QED  BY <1>2, <2>2, <2>3 DEF SignupCommit
<1>3. ASSUME PasswordRead(r) PROVE C!Next
  <2> DEFINE u == loc[r].user
             l == [loc[r] EXCEPT !.subject = u, !.epoch = password[u]]
  <2>1. /\ Goto(r, "mp_write", l) /\ l.subject = u /\ l.epoch = password[u] /\ Still
        /\ pc[r] = "run" /\ u \in Users
    BY <1>3 DEF PasswordRead, Types, UsersOK, ReqsOK, Locals, Still, userVars, rowVars, history
  <2> HIDE DEF l
  <2>2. Proof("mp_write", l) = Opens(u, password[u])
    BY <2>1 DEF Proof
  <2>3. QED  BY <1>0, <2>1, <2>2, ProveKeeps
<1>4. ASSUME SigninRegen(r) PROVE C!Next
  <2> DEFINE l == [Blank EXCEPT !.user = loc[r].subject, !.dirty = TRUE, !.epoch = loc[r].epoch]
  <2>1. Goto(r, "end", l) /\ l.dirty /\ l.user = loc[r].subject /\ l.epoch = loc[r].epoch /\ pc[r] = "si_regen"
    BY <1>4 DEF SigninRegen, Blank
  <2> HIDE DEF l
  <2>2. Proof("end", l) = Held[r]
    BY <2>1 DEF Held, Proof
  <2>3. Held' = Held
    BY <2>1, <2>2, HeldGoto
  <2>4. QED  BY <1>4, <2>3, OwnSid, Leaves DEF SigninRegen, userVars
<1>5. ASSUME Signout(r) PROVE C!Next
  <2>1. Held' = Held
    BY <1>0, <1>5, HeldEnds DEF Signout
  <2>2. QED  BY <1>5, <2>1, OwnSid, Leaves DEF Signout, userVars
<1>6. ASSUME \/ \E u \in Users : ResetRequestRead(r, u)
             \/ \E t \in Tokens : ConfirmRead(r, t) \/ ResetRequestCreate(r, t)
      PROVE  UNCHANGED <<Open, password, resets, Held, ended>>
  <2>1. Still /\ Held[r] = Opens(None, 0)
    BY <1>6, HeldNone DEF ResetRequestRead, ConfirmRead, ResetRequestCreate, Still, userVars, rowVars, history
  <2>2. ASSUME NEW step, NEW l, step \in {"rr_create", "rc_commit"}, Goto(r, step, l) PROVE Held' = Held
    BY <2>1, <2>2, HeldGoto, ProofNone
  <2>3. Held' = Held
    <3>1. ASSUME NEW u \in Users, ResetRequestRead(r, u) PROVE Held' = Held
      BY <3>1, <2>2 DEF ResetRequestRead
    <3>2. ASSUME NEW t \in Tokens, ConfirmRead(r, t) PROVE Held' = Held
      BY <3>2, <2>2 DEF ConfirmRead
    <3>3. ASSUME NEW t \in Tokens, ResetRequestCreate(r, t) PROVE Held' = Held
      BY <3>3, <2>1, HeldEnds DEF ResetRequestCreate
    <3>4. QED  BY <1>6, <3>1, <3>2, <3>3
  <2>4. QED  BY <2>1, <2>3, StillStep
<1>7. QED
  BY <1>1, <1>2, <1>3, <1>4, <1>5, <1>6, ConfirmKeeps, PasswordKeeps, Zenon DEF Credentials

\* Each step is one step of the promise, or none.
LEMMA StepKeeps ==
    ASSUME Types, Gone, Proven, [Next]_vars
    PROVE  C!Next \/ UNCHANGED <<Open, password, resets, Held, ended>>
<1>1. ASSUME NEW s \in Sids, Drop(s) PROVE C!Next
  BY <1>1, Leaves DEF Drop, Held, userVars
<1>2. ASSUME Prune PROVE C!Next
  <2>1. Prunable \in SUBSET Sids
    BY DEF Prunable, Types, RowsOK
  <2>2. QED  BY <1>2, <2>1, Leaves DEF Prune, Held, userVars
<1>3. ASSUME Restart PROVE C!Next
  <2>1. Held' = [r \in Reqs |-> IF r \in Reqs THEN Opens(None, 0) ELSE Held[r]]
    BY <1>3 DEF Restart, Held, Proof
  <2>2. UNCHANGED <<Open, password, resets, ended>>
    BY <1>3 DEF Restart, userVars, rowVars, history, Open, Opens
  <2>3. C!Forget(Reqs)
    BY <2>1, <2>2, OpenIs DEF C!Forget
  <2>4. QED  BY <2>3 DEF C!Next
<1>4. CASE \/ \E s \in Sids : Expire(s)
           \/ \E t \in Tokens : TokenExpire(t)
           \/ (\E u \in Users : SetDisabled(u) \/ DeleteUser(u)) \/ UNCHANGED vars
  <2>1. Still /\ UNCHANGED <<pc, loc>>
    BY <1>4 DEF Expire, TokenExpire, SetDisabled, DeleteUser, vars, userVars, rowVars, history, Still
  <2>2. QED  BY <2>1, StillStep DEF Held
<1>5. QED  BY <1>1, <1>2, <1>3, <1>4, SessionKeeps, CredentialsKeep DEF Next

\* The routes keep the promise of CredentialPromise for any number of users,
\* sessions, tokens and requests: auth.ts:111-246 and me.ts:48-62 over
\* session-store.ts act as if each proof, session, change and reset were one step.
THEOREM KeepsCredentialsHolds == Spec => KeepsCredentials
<1>1. Init => C!Init
  BY SessionsAssumption DEF Init, C!Init, C!Nothing, Held, Open, Opens, Proof
<1>2. Init => Gone /\ Proven
  BY BlankLocal DEF Init, Gone, EndedStays, Claims, Claim, Proven, Pending, OldCredentialsDie
<1>3. Types /\ Gone /\ Proven /\ [Next]_vars => [C!Next]_<<Open, password, resets, Held, ended>>
  BY StepKeeps
<1>4. QED
  BY <1>1, <1>2, <1>3, TypesAlways, GoneInvariant, ProvenInvariant, PTL DEF Spec, KeepsCredentials, C!Spec
=============================================================================
