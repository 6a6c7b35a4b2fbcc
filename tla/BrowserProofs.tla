---------------------------- MODULE BrowserProofs ----------------------------
(***************************************************************************)
(* Theorems about Browser: for any number of tabs, users, sessions and     *)
(* tokens a tab acts as the user it shows, and a good token stays good.    *)
(***************************************************************************)
EXTENDS Browser, TLAPS

\* Session ids are handed out in order: nobody holds one that is still to come.
Ids ==
    /\ csrf.of <= issued
    /\ \A t \in Tabs : /\ token[t].of <= issued
                       /\ reply[t].sid <= issued /\ reply[t].tok.of <= issued

\* A sign-in needs a token that fits a live session, which it ends: the sessions
\* of a browser never become two.
Single == \A a, b \in live : a = b

\* What the answer to GET /csrf carries, and what a tab knows while it waits.
Booting == \A t \in Tabs : step[t] = "prime" =>
    /\ me[t] = None
    /\ reply[t].tok.of = reply[t].sid
    /\ ~reply[t].new => reply[t].tok = reply[t].seen

\* As long as the session of its token lives, a tab shows the user of that
\* session or nobody, and is told of nobody else.
Bound(t, s) == s \in live \ taken /\ owner[s] # None =>
    /\ me[t] \in {None, owner[s]}
    /\ step[t] = "me" => reply[t].user \in {None, owner[s]}
Shows == \A t \in Tabs : Bound(t, token[t].of)

\* A token that was good stays good until something disturbs it.
Good == \A t \in Tabs : primed[t] /\ token[t].of # Anonymous => Fits(t)

Inv == TypeOK /\ Ids /\ Single /\ Booting /\ Shows /\ Good

-----------------------------------------------------------------------------
LEMMA InitInv == Init => Inv
  <1> SUFFICES ASSUME Init PROVE Inv
    OBVIOUS
  <1> USE BrowserAssumption DEF Init, Sids, Anonymous, NoToken, Tokens, Quiet, Replies, Steps, Routes
  <1>1. TypeOK
    BY DEF TypeOK
  <1>2. Ids /\ Single /\ Booting
    BY DEF Ids, Single, Booting
  <1>3. Shows /\ Good
    BY DEF Shows, Bound, Good
  <1> QED
    BY <1>1, <1>2, <1>3 DEF Inv

\* The answers to GET /csrf and GET /me.
LEMMA Answers ==
  ASSUME TypeOK, Ids
  PROVE  /\ Quiet \in Replies /\ Quiet.sid = Anonymous /\ Quiet.tok = NoToken
         /\ generated < MaxTokens => CsrfReply \in Replies
         /\ \A c \in 0 .. issued : MeReply(c) \in Replies
  <1> USE BrowserAssumption DEF TypeOK, Ids, Sids, Anonymous, NoToken, Tokens
  <1>1. Quiet \in Replies /\ Quiet.sid = Anonymous /\ Quiet.tok = NoToken
    BY DEF Quiet, Replies
  <1>2. ASSUME generated < MaxTokens PROVE CsrfReply \in Replies
    <2>1. SessionOf(jar) \in Sids \cup {Anonymous}
      BY DEF SessionOf
    <2>2. (IF Reusable THEN csrf ELSE [of |-> SessionOf(jar), n |-> generated + 1]) \in Tokens
      BY <1>2, <2>1
    <2> QED
      BY <2>1, <2>2 DEF CsrfReply, Quiet, Replies
  <1>3. ASSUME NEW c \in 0 .. issued PROVE MeReply(c) \in Replies
    <2>1. SessionOf(c) \in Sids \cup {Anonymous} /\ UserOf(c) \in Users \cup {None}
      BY DEF SessionOf, UserOf
    <2> QED
      BY <1>1, <2>1 DEF MeReply, Replies
  <1> QED
    BY <1>1, <1>2, <1>3

\* The session cookie after an answer.
LEMMA Rolling ==
  ASSUME TypeOK, Ids, NEW t \in Tabs
  PROVE  reply[t] \in Replies /\ reply[t].tok \in Tokens /\ Rolled(t) \in 0 .. issued
  <1>1. reply[t] \in Replies /\ reply[t].sid <= issued /\ jar \in 0 .. issued
    BY DEF TypeOK, Ids
  <1>2. reply[t].sid \in Sids \cup {Anonymous} /\ reply[t].tok \in Tokens
    BY <1>1 DEF Replies
  <1> QED
    BY <1>1, <1>2, BrowserAssumption DEF TypeOK, Rolled, Sids, Anonymous

LEMMA Held ==
  ASSUME TypeOK, Ids
  PROVE  /\ csrf.of \in 0 .. issued
         /\ \A v \in Tabs : /\ token[v].of \in 0 .. issued /\ reply[v].sid \in 0 .. issued
                            /\ reply[v].tok.of \in 0 .. issued
  <1> USE BrowserAssumption DEF Tokens, Sids, Anonymous
  <1>1. ASSUME NEW k \in Tokens, k.of <= issued PROVE k.of \in 0 .. issued
    BY <1>1 DEF TypeOK
  <1>2. ASSUME NEW v \in Tabs PROVE reply[v].sid \in 0 .. issued
    BY <1>2, Rolling DEF TypeOK, Ids, Replies
  <1> QED
    BY <1>1, <1>2, Rolling DEF TypeOK, Ids

\* The answer to a call that carries the token.
Answer(t, ok, sid) ==
    [Quiet EXCEPT !.fits = Fits(t), !.ok = ok, !.user = UserOf(jar), !.sid = sid]

LEMMA CallAnswers ==
  ASSUME TypeOK, Ids, NEW t \in Tabs, NEW ok \in BOOLEAN, NEW sid \in Sids \cup {Anonymous}
  PROVE  /\ Answer(t, ok, sid) \in Replies
         /\ Answer(t, ok, sid).sid = sid /\ Answer(t, ok, sid).tok = NoToken
  <1>1. UserOf(jar) \in Users \cup {None}
    BY BrowserAssumption DEF TypeOK, UserOf, Sids
  <1>2. Fits(t) \in BOOLEAN
    BY DEF Fits
  <1> QED
    BY <1>1, <1>2, Answers DEF Answer, Replies

\* A call that changes no session: it was refused, or wrote something else.
Unaccepted(t, what, ok, sid) ==
    /\ step[t] = "idle" /\ step' = Set(step, t, what)
    /\ reply' = Set(reply, t, Answer(t, ok, sid))
    /\ UNCHANGED <<sessions, primed, generated, cookies, token, me, route, mounted>>

LEMMA UnacceptedInv ==
  ASSUME Inv, NEW t \in Tabs, NEW what \in {"signin", "signout", "change"},
         NEW ok \in BOOLEAN, NEW sid \in 0 .. issued,
         Unaccepted(t, what, ok, sid),
         UNCHANGED loading \/ (what = "signin" /\ loading' = Set(loading, t, TRUE))
  PROVE  Inv'
  <1>1. Answer(t, ok, sid) \in Replies /\ Answer(t, ok, sid).sid = sid
         /\ Answer(t, ok, sid).tok = NoToken
    <2>1. sid \in Sids \cup {Anonymous}
      BY BrowserAssumption DEF Inv, TypeOK, Sids, Anonymous
    <2> QED
      BY <2>1, CallAnswers DEF Inv
  <1> DEFINE r == Answer(t, ok, sid)
  <1> HIDE DEF r
  <1>2. reply' = Set(reply, t, r) /\ r \in Replies /\ r.sid = sid /\ r.tok = NoToken
    BY <1>1 DEF Unaccepted, r
  <1> USE BrowserAssumption DEF Unaccepted, Inv, TypeOK, Set, sessions, cookies
  <1>3. TypeOK'
    <2>1. reply' \in [Tabs -> Replies] /\ step' \in [Tabs -> Steps]
      BY <1>2 DEF Steps
    <2>2. \A v \in Tabs : loading'[v] => step'[v] \in {"signin", "me"}
      OBVIOUS
    <2>3. \A v \in Tabs : step'[v] \in {"idle", "signin", "signout", "change"} => mounted'[v]
      OBVIOUS
    <2>4. loading' \in [Tabs -> BOOLEAN]
      OBVIOUS
    <2> QED
      BY <2>1, <2>2, <2>3, <2>4
  <1>4. Ids' /\ Single'
    BY <1>2 DEF Ids, Single, NoToken, Anonymous, Sids
  <1>5. Booting' /\ Shows'
    BY DEF Booting, Shows, Bound
  <1>6. Good'
    BY DEF Good, Fits
  <1> QED
    BY <1>3, <1>4, <1>5, <1>6

LEMMA StepInv == Inv /\ [Next]_vars => Inv'
  <1> SUFFICES ASSUME Inv, [Next]_vars PROVE Inv'
    OBVIOUS
  <1> USE BrowserAssumption DEF Sids, Anonymous, NoToken, Tokens, Set, Send, SessionOf, UserOf,
          Rolled, sessions, cookies, screen, Inv
  <1>1. ASSUME NEW s \in Sids, SessionEnds(s) PROVE Inv'
    <2>1. TypeOK'
      BY <1>1 DEF SessionEnds, TypeOK, Disturb
    <2>2. Ids' /\ Single'
      BY <1>1 DEF SessionEnds, TypeOK, Ids, Single
    <2>3. Booting'
      BY <1>1 DEF SessionEnds, TypeOK, Booting
    <2>4. Shows'
      BY <1>1 DEF SessionEnds, TypeOK, Shows, Bound
    <2>5. Good'
      BY <1>1 DEF SessionEnds, TypeOK, Good, Fits, Disturb
    <2> QED
      BY <2>1, <2>2, <2>3, <2>4, <2>5
  <1>2. ASSUME NEW s \in Sids, SessionCleared(s) PROVE Inv'
    <2>1. TypeOK'
      BY <1>2 DEF SessionCleared, TypeOK
    <2>2. Ids' /\ Single'
      BY <1>2 DEF SessionCleared, TypeOK, Ids, Single
    <2>3. Booting'
      BY <1>2 DEF SessionCleared, TypeOK, Booting
    <2>4. Shows'
      BY <1>2 DEF SessionCleared, TypeOK, Shows, Bound
    <2>5. Good'
      BY <1>2 DEF SessionCleared, TypeOK, Good, Fits
    <2> QED
      BY <2>1, <2>2, <2>3, <2>4, <2>5
  <1>3. ASSUME NEW t \in Tabs, Navigate(t) PROVE Inv'
    <2>1. TypeOK'
      BY <1>3 DEF Navigate, Land, TypeOK, Routes
    <2>2. Ids' /\ Single'
      BY <1>3 DEF Navigate, TypeOK, Ids, Single
    <2>3. Booting'
      BY <1>3 DEF Navigate, TypeOK, Booting
    <2>4. Shows'
      BY <1>3 DEF Navigate, TypeOK, Shows, Bound
    <2>5. Good'
      BY <1>3 DEF Navigate, TypeOK, Good, Fits
    <2> QED
      BY <2>1, <2>2, <2>3, <2>4, <2>5
  <1>4. ASSUME NEW t \in Tabs, Boot(t) PROVE Inv'
    <2>1. reply' = Set(reply, t, CsrfReply) /\ CsrfReply \in Replies
      BY <1>4, Answers DEF Boot
    <2>2. TypeOK'
      BY <1>4, <2>1 DEF Boot, Land, TypeOK, Steps, Routes
    <2>3. Ids' /\ Single'
      BY <1>4 DEF Boot, CsrfReply, TypeOK, Ids, Single
    <2>4. Booting'
      BY <1>4 DEF Boot, CsrfReply, TypeOK, Booting, Quiet, Reusable
    <2>5. Shows'
      BY <1>4 DEF Boot, CsrfReply, TypeOK, Shows, Bound
    <2>6. Good'
      BY <1>4 DEF Boot, CsrfReply, TypeOK, Good, Fits
    <2> QED
      BY <2>2, <2>3, <2>4, <2>5, <2>6
  <1>5. ASSUME NEW t \in Tabs, PrimeAnswered(t) PROVE Inv'
    <2>1. /\ reply' = Set(reply, t, MeReply(Rolled(t))) /\ MeReply(Rolled(t)) \in Replies
           /\ Rolled(t) \in 0 .. issued /\ reply[t].tok \in Tokens
      BY <1>5, Answers, Rolling DEF PrimeAnswered, FetchMe
    <2>2. TypeOK'
      <3>1. reply' \in [Tabs -> Replies] /\ step' \in [Tabs -> Steps]
        BY <1>5, <2>1 DEF PrimeAnswered, FetchMe, TypeOK, Steps
      <3>2. token' \in [Tabs -> Tokens] /\ csrf' \in Tokens /\ jar' \in 0 .. issued
        BY <1>5, <2>1 DEF PrimeAnswered, TypeOK
      <3>3. primed' \in [Tabs -> BOOLEAN]
        BY <1>5, <2>1 DEF PrimeAnswered, TypeOK
      <3>4. /\ \A v \in Tabs : loading[v] => step'[v] \in {"signin", "me"}
            /\ \A v \in Tabs : step'[v] \in {"idle", "signin", "signout", "change"} => mounted[v]
        BY <1>5 DEF PrimeAnswered, FetchMe, TypeOK
      <3> QED
        BY <1>5, <3>1, <3>2, <3>3, <3>4 DEF PrimeAnswered, TypeOK
    <2>3. Ids' /\ Single'
      BY <1>5 DEF PrimeAnswered, FetchMe, MeReply, TypeOK, Ids, Single, Quiet
    <2>4. Booting'
      BY <1>5 DEF PrimeAnswered, FetchMe, TypeOK, Booting
    <2>5. Shows'
      BY <1>5 DEF PrimeAnswered, FetchMe, MeReply, TypeOK, Booting, Shows, Bound
    <2>6. Good'
      BY <1>5 DEF PrimeAnswered, FetchMe, Undisturbed, TypeOK, Booting, Good, Fits
    <2> QED
      BY <2>2, <2>3, <2>4, <2>5, <2>6
  <1>6. ASSUME NEW t \in Tabs, PrimeRefused(t) PROVE Inv'
    <2>1. reply' = Set(reply, t, MeReply(jar)) /\ MeReply(jar) \in Replies
      BY <1>6, Answers DEF PrimeRefused, FetchMe, TypeOK
    <2>2. TypeOK'
      BY <1>6, <2>1 DEF PrimeRefused, FetchMe, TypeOK, Steps
    <2>3. Ids' /\ Single'
      BY <1>6 DEF PrimeRefused, FetchMe, MeReply, TypeOK, Ids, Single, Quiet
    <2>4. Booting'
      BY <1>6 DEF PrimeRefused, FetchMe, TypeOK, Booting
    <2>5. Shows'
      BY <1>6 DEF PrimeRefused, FetchMe, MeReply, TypeOK, Single, Shows, Bound
    <2>6. Good'
      BY <1>6 DEF PrimeRefused, FetchMe, TypeOK, Good, Fits
    <2> QED
      BY <2>2, <2>3, <2>4, <2>5, <2>6
  <1>7. ASSUME NEW t \in Tabs, PrimeLost(t) PROVE Inv'
    <2>1. Quiet \in Replies
      BY <1>7, Answers DEF Set
    <2>2. TypeOK'
      BY <1>7, <2>1 DEF PrimeLost, TypeOK, Steps
    <2>3. Ids' /\ Single'
      BY <1>7 DEF PrimeLost, TypeOK, Ids, Single, Quiet
    <2>4. Booting'
      BY <1>7 DEF PrimeLost, TypeOK, Booting
    <2>5. Shows'
      BY <1>7 DEF PrimeLost, TypeOK, Shows, Bound
    <2>6. Good'
      BY <1>7 DEF PrimeLost, TypeOK, Good, Fits
    <2> QED
      BY <2>2, <2>3, <2>4, <2>5, <2>6
  <1>8. ASSUME NEW t \in Tabs, MeAnswered(t) PROVE Inv'
    <2>1. TypeOK'
      BY <1>8 DEF MeAnswered, MeKnown, SignInEnds, Idle, Land, TypeOK, Ids, Quiet, Replies, Steps, Routes, Disturb
    <2>2. Ids' /\ Single'
      BY <1>8 DEF MeAnswered, MeKnown, SignInEnds, Idle, TypeOK, Ids, Single, Quiet
    <2>3. Booting'
      BY <1>8 DEF MeAnswered, MeKnown, SignInEnds, Idle, TypeOK, Booting
    <2>4. Shows'
      BY <1>8 DEF MeAnswered, MeKnown, SignInEnds, Idle, TypeOK, Shows, Bound
    <2>5. Good'
      BY <1>8 DEF MeAnswered, MeKnown, SignInEnds, Idle, TypeOK, Good, Fits, Disturb
    <2> QED
      BY <2>1, <2>2, <2>3, <2>4, <2>5
  <1>9. ASSUME NEW t \in Tabs, MeFailed(t) PROVE Inv'
    <2>1. TypeOK'
      BY <1>9 DEF MeFailed, MeKnown, SignInEnds, Idle, Land, TypeOK, Quiet, Replies, Steps, Routes
    <2>2. Ids' /\ Single'
      BY <1>9 DEF MeFailed, MeKnown, SignInEnds, Idle, TypeOK, Ids, Single, Quiet
    <2>3. Booting'
      BY <1>9 DEF MeFailed, MeKnown, SignInEnds, Idle, TypeOK, Booting
    <2>4. Shows'
      BY <1>9 DEF MeFailed, MeKnown, SignInEnds, Idle, TypeOK, Shows, Bound
    <2>5. Good'
      BY <1>9 DEF MeFailed, MeKnown, SignInEnds, Idle, TypeOK, Good, Fits
    <2> QED
      BY <2>1, <2>2, <2>3, <2>4, <2>5
  <1>10. ASSUME NEW t \in Tabs, Refetch(t) PROVE Inv'
    <2>1. reply' = Set(reply, t, MeReply(jar)) /\ MeReply(jar) \in Replies
      BY <1>10, Answers DEF Refetch, FetchMe, TypeOK
    <2>2. TypeOK'
      BY <1>10, <2>1 DEF Refetch, FetchMe, TypeOK, Steps
    <2>3. Ids' /\ Single'
      BY <1>10 DEF Refetch, FetchMe, MeReply, TypeOK, Ids, Single, Quiet
    <2>4. Booting'
      BY <1>10 DEF Refetch, FetchMe, TypeOK, Booting
    <2>5. Shows'
      BY <1>10 DEF Refetch, FetchMe, MeReply, TypeOK, Single, Shows, Bound
    <2>6. Good'
      BY <1>10 DEF Refetch, FetchMe, TypeOK, Good, Fits
    <2> QED
      BY <2>2, <2>3, <2>4, <2>5, <2>6
  <1>11. ASSUME NEW t \in Tabs, NEW u \in Users, SignIn(t, u) PROVE Inv'
    <2> DEFINE Accepted == /\ Fits(t) /\ step[t] = "idle" /\ step' = Set(step, t, "signin")
                           /\ reply' = Set(reply, t, Answer(t, TRUE, Regenerated))
                           /\ issued < MaxSessions /\ issued' = issued + 1
                           /\ live' = (live \ {jar}) \cup {Regenerated}
                           /\ owner' = [owner EXCEPT ![jar] = None, ![Regenerated] = u]
                           /\ Disturb(TRUE) /\ UNCHANGED <<accounts, taken>>
    <2>1. Accepted \/ Unaccepted(t, "signin", FALSE, SessionOf(jar))
      BY <1>11 DEF SignIn, Call, Answer, Unaccepted
    <2>2. CASE Unaccepted(t, "signin", FALSE, SessionOf(jar))
      <3>1. SessionOf(jar) \in 0 .. issued
        BY DEF TypeOK
      <3>2. loading' = Set(loading, t, TRUE)
        BY <1>11 DEF SignIn
      <3> QED
        BY <2>2, <3>1, <3>2, UnacceptedInv
    <2>3. CASE Accepted
      <3>1. jar \in live /\ jar \in Sids
        BY <2>3 DEF Fits, TypeOK
      <3> DEFINE r == Answer(t, TRUE, Regenerated)
      <3>2. r \in Replies /\ r.sid = Regenerated /\ r.tok = NoToken
        <4>1. Regenerated \in Sids \cup {Anonymous}
          BY <2>3, <3>1 DEF TypeOK, Regenerated
        <4> QED
          BY <4>1, CallAnswers
      <3> HIDE DEF r
      <3>3. reply' = Set(reply, t, r)
        BY <2>3 DEF r
      <3>4. UNCHANGED <<generated, cookies, token, me, route, mounted>> /\ loading' = Set(loading, t, TRUE)
        BY <1>11 DEF SignIn, Call
      <3>5. TypeOK'
        <4>1. reply' \in [Tabs -> Replies]
          BY <3>2, <3>3 DEF TypeOK
        <4>2. step' \in [Tabs -> Steps]
          BY <2>3 DEF TypeOK, Steps
        <4>3. \A v \in Tabs : loading'[v] => step'[v] \in {"signin", "me"}
          BY <2>3, <3>4 DEF TypeOK
        <4>4. /\ loading' \in [Tabs -> BOOLEAN] /\ mounted' = mounted /\ primed' \in [Tabs -> BOOLEAN]
              /\ \A v \in Tabs : step'[v] \in {"idle", "signin", "signout", "change"} => mounted'[v]
          BY <2>3, <3>4 DEF TypeOK, Disturb
        <4>5. /\ accounts' \subseteq Users /\ live' \subseteq 1 .. issued' /\ issued' \in Sids
              /\ owner' \in [Sids -> accounts' \cup {None}] /\ taken' \subseteq Sids
              /\ \A s \in Sids \ live' : owner'[s] = None
          BY <1>11, <2>3, <3>1 DEF SignIn, TypeOK, Regenerated
        <4>6. jar' \in 0 .. issued' /\ csrf' \in Tokens /\ generated' \in 0 .. MaxTokens
          BY <2>3, <3>4 DEF TypeOK, Regenerated
        <4>7. /\ token' \in [Tabs -> Tokens] /\ me' \in [Tabs -> Users \cup {None}]
              /\ route' \in [Tabs -> Routes]
          BY <3>4 DEF TypeOK
        <4> QED
          BY <4>1, <4>2, <4>3, <4>4, <4>5, <4>6, <4>7 DEF TypeOK
      <3>6. Ids' /\ Single'
        <4>1. \A v \in Tabs : reply'[v].sid <= issued' /\ reply'[v].tok.of <= issued'
          <5>1. /\ issued \in Nat /\ issued' = issued + 1
                /\ r.sid = issued + 1 /\ r.tok.of = 0
            BY <2>3, <3>2 DEF TypeOK, Regenerated
          <5>2. ASSUME NEW v \in Tabs, v # t PROVE reply'[v] = reply[v]
            BY <3>3, <5>2 DEF TypeOK
          <5>3. reply'[t] = r
            BY <3>3 DEF TypeOK
          <5> QED
            BY <5>1, <5>2, <5>3, Held
        <4>2. Single' /\ csrf'.of <= issued' /\ \A v \in Tabs : token'[v].of <= issued'
          BY <2>3, <3>1, <3>4, Held DEF TypeOK, Ids, Single, Regenerated
        <4> QED
          BY <4>1, <4>2 DEF Ids
      <3>7. Booting'
        BY <1>11, <2>3 DEF SignIn, Call, TypeOK, Booting
      <3>8. Shows'
        BY <1>11, <2>3, <3>1 DEF SignIn, Call, TypeOK, Ids, Shows, Bound, Regenerated
      <3>9. Good'
        BY <1>11, <2>3, <3>1 DEF SignIn, Call, TypeOK, Good, Disturb
      <3> QED
        BY <3>5, <3>6, <3>7, <3>8, <3>9
    <2> QED
      BY <2>1, <2>2, <2>3
  <1>12. ASSUME NEW t \in Tabs, NEW u \in Users, SignUp(t, u) PROVE Inv'
    <2> DEFINE Accepted == /\ Fits(t) /\ step[t] = "idle" /\ step' = Set(step, t, "signin")
                           /\ reply' = Set(reply, t, Answer(t, TRUE, jar))
                           /\ accounts' = accounts \cup {u} /\ owner' = Set(owner, jar, u)
                           /\ taken' = taken \cup {jar}
                           /\ UNCHANGED <<live, issued, primed>>
    <2>1. Accepted \/ Unaccepted(t, "signin", FALSE, SessionOf(jar))
      BY <1>12 DEF SignUp, Call, Answer, Unaccepted
    <2>2. CASE Unaccepted(t, "signin", FALSE, SessionOf(jar))
      <3>1. SessionOf(jar) \in 0 .. issued
        BY DEF TypeOK
      <3>2. loading' = Set(loading, t, TRUE)
        BY <1>12 DEF SignUp
      <3> QED
        BY <2>2, <3>1, <3>2, UnacceptedInv
    <2>3. CASE Accepted
      <3>1. jar \in live /\ jar \in Sids
        BY <2>3 DEF Fits, TypeOK
      <3> DEFINE r == Answer(t, TRUE, jar)
      <3>2. r \in Replies /\ r.sid = jar /\ r.tok = NoToken
        <4>1. jar \in Sids \cup {Anonymous}
          BY <2>3, <3>1 DEF TypeOK, Regenerated
        <4> QED
          BY <4>1, CallAnswers
      <3> HIDE DEF r
      <3>3. reply' = Set(reply, t, r)
        BY <2>3 DEF r
      <3>4. UNCHANGED <<generated, cookies, token, me, route, mounted>> /\ loading' = Set(loading, t, TRUE)
        BY <1>12 DEF SignUp, Call
      <3>5. TypeOK'
        <4>1. reply' \in [Tabs -> Replies]
          BY <3>2, <3>3 DEF TypeOK
        <4>2. step' \in [Tabs -> Steps]
          BY <2>3 DEF TypeOK, Steps
        <4>3. \A v \in Tabs : loading'[v] => step'[v] \in {"signin", "me"}
          BY <2>3, <3>4 DEF TypeOK
        <4>4. /\ loading' \in [Tabs -> BOOLEAN] /\ mounted' = mounted /\ primed' \in [Tabs -> BOOLEAN]
              /\ \A v \in Tabs : step'[v] \in {"idle", "signin", "signout", "change"} => mounted'[v]
          BY <2>3, <3>4 DEF TypeOK
        <4>5. /\ accounts' \subseteq Users /\ live' \subseteq 1 .. issued' /\ issued' \in Sids
              /\ owner' \in [Sids -> accounts' \cup {None}] /\ taken' \subseteq Sids
              /\ \A s \in Sids \ live' : owner'[s] = None
          BY <1>12, <2>3, <3>1 DEF SignUp, TypeOK, Regenerated
        <4>6. jar' \in 0 .. issued' /\ csrf' \in Tokens /\ generated' \in 0 .. MaxTokens
          BY <2>3, <3>4 DEF TypeOK, Regenerated
        <4>7. /\ token' \in [Tabs -> Tokens] /\ me' \in [Tabs -> Users \cup {None}]
              /\ route' \in [Tabs -> Routes]
          BY <3>4 DEF TypeOK
        <4> QED
          BY <4>1, <4>2, <4>3, <4>4, <4>5, <4>6, <4>7 DEF TypeOK
      <3>6. Ids' /\ Single'
        <4>1. \A v \in Tabs : reply'[v].sid <= issued' /\ reply'[v].tok.of <= issued'
          <5>1. issued' = issued /\ issued \in Nat /\ r.sid = jar /\ r.tok.of = 0 /\ jar \in 0 .. issued
            BY <2>3, <3>2 DEF TypeOK
          <5>2. ASSUME NEW v \in Tabs, v # t PROVE reply'[v] = reply[v]
            BY <3>3, <5>2 DEF TypeOK
          <5>3. reply'[t] = r
            BY <3>3 DEF TypeOK
          <5> QED
            BY <5>1, <5>2, <5>3, Held
        <4>2. Single' /\ csrf'.of <= issued' /\ \A v \in Tabs : token'[v].of <= issued'
          BY <2>3, <3>1, <3>4, Held DEF TypeOK, Single, Regenerated
        <4> QED
          BY <4>1, <4>2 DEF Ids
      <3>7. Booting'
        BY <1>12, <2>3 DEF SignUp, Call, TypeOK, Booting
      <3>8. Shows'
        BY <1>12, <2>3, <3>1 DEF SignUp, Call, TypeOK, Shows, Bound, Regenerated
      <3>9. Good'
        BY <1>12, <2>3, <3>1 DEF SignUp, Call, TypeOK, Good, Fits
      <3> QED
        BY <3>5, <3>6, <3>7, <3>8, <3>9
    <2> QED
      BY <2>1, <2>2, <2>3
  <1>13. ASSUME NEW t \in Tabs, SignInAnswered(t) PROVE Inv'
    <2>1. Rolled(t) \in 0 .. issued /\ Quiet \in Replies /\ MeReply(Rolled(t)) \in Replies
      BY Answers, Rolling
    <2>2. CASE reply[t].ok
      <3>1. FetchMe(t, Rolled(t)) /\ UNCHANGED loading
        BY <1>13, <2>2 DEF SignInAnswered
      <3>2. TypeOK'
        BY <1>13, <2>1, <3>1 DEF SignInAnswered, FetchMe, TypeOK, Steps, Disturb
      <3>3. Ids' /\ Single'
        BY <1>13, <2>1, <3>1 DEF SignInAnswered, FetchMe, MeReply, TypeOK, Ids, Single, Quiet
      <3>4. Booting'
        BY <1>13, <3>1 DEF SignInAnswered, FetchMe, TypeOK, Booting
      <3>5. Shows'
        BY <1>13, <2>1, <3>1 DEF SignInAnswered, FetchMe, MeReply, TypeOK, Single, Shows, Bound
      <3>6. Good'
        BY <1>13, <3>1 DEF SignInAnswered, TypeOK, Good, Fits, Disturb
      <3> QED
        BY <3>2, <3>3, <3>4, <3>5, <3>6
    <2>3. CASE ~reply[t].ok
      <3>1. Idle(t) /\ SignInEnds(t)
        BY <1>13, <2>3 DEF SignInAnswered
      <3>2. TypeOK'
        BY <1>13, <2>1, <3>1 DEF SignInAnswered, Idle, SignInEnds, TypeOK, Steps, Disturb
      <3>3. Ids' /\ Single'
        BY <1>13, <3>1 DEF SignInAnswered, Idle, TypeOK, Ids, Single, Quiet
      <3>4. Booting'
        BY <1>13, <3>1 DEF SignInAnswered, Idle, TypeOK, Booting
      <3>5. Shows'
        BY <1>13, <3>1 DEF SignInAnswered, Idle, TypeOK, Shows, Bound
      <3>6. Good'
        BY <1>13, <3>1 DEF SignInAnswered, TypeOK, Good, Fits, Disturb
      <3> QED
        BY <3>2, <3>3, <3>4, <3>5, <3>6
    <2> QED
      BY <2>2, <2>3
  <1>14. ASSUME NEW t \in Tabs, SignInLost(t) PROVE Inv'
    <2>1. TypeOK'
      BY <1>14 DEF SignInLost, Idle, SignInEnds, TypeOK, Quiet, Replies, Steps
    <2>2. Ids' /\ Single'
      BY <1>14 DEF SignInLost, Idle, SignInEnds, TypeOK, Ids, Single, Quiet
    <2>3. Booting'
      BY <1>14 DEF SignInLost, Idle, SignInEnds, TypeOK, Booting
    <2>4. Shows'
      BY <1>14 DEF SignInLost, Idle, SignInEnds, TypeOK, Shows, Bound
    <2>5. Good'
      BY <1>14 DEF SignInLost, Idle, SignInEnds, TypeOK, Good, Fits
    <2> QED
      BY <2>1, <2>2, <2>3, <2>4, <2>5
  <1>15. ASSUME NEW t \in Tabs, SignOut(t) PROVE Inv'
    <2> DEFINE Accepted == /\ Fits(t) /\ step[t] = "idle" /\ step' = Set(step, t, "signout")
                           /\ reply' = Set(reply, t, Answer(t, TRUE, Anonymous))
                           /\ live' = live \ {jar} /\ owner' = Set(owner, jar, None)
                           /\ Disturb(TRUE) /\ UNCHANGED <<accounts, issued, taken>>
    <2>1. Accepted \/ Unaccepted(t, "signout", FALSE, SessionOf(jar))
      BY <1>15 DEF SignOut, Call, Answer, Unaccepted
    <2>2. CASE Unaccepted(t, "signout", FALSE, SessionOf(jar))
      <3>1. SessionOf(jar) \in 0 .. issued
        BY DEF TypeOK
      <3>2. UNCHANGED loading
        BY <1>15 DEF SignOut
      <3> QED
        BY <2>2, <3>1, <3>2, UnacceptedInv
    <2>3. CASE Accepted
      <3>1. jar \in live /\ jar \in Sids
        BY <2>3 DEF Fits, TypeOK
      <3> DEFINE r == Answer(t, TRUE, Anonymous)
      <3>2. r \in Replies /\ r.sid = Anonymous /\ r.tok = NoToken
        <4>1. Anonymous \in Sids \cup {Anonymous}
          BY <2>3, <3>1 DEF TypeOK, Regenerated
        <4> QED
          BY <4>1, CallAnswers
      <3> HIDE DEF r
      <3>3. reply' = Set(reply, t, r)
        BY <2>3 DEF r
      <3>4. UNCHANGED <<generated, cookies, token, me, route, mounted>> /\ UNCHANGED loading
        BY <1>15 DEF SignOut, Call
      <3>5. TypeOK'
        <4>1. reply' \in [Tabs -> Replies]
          BY <3>2, <3>3 DEF TypeOK
        <4>2. step' \in [Tabs -> Steps]
          BY <2>3 DEF TypeOK, Steps
        <4>3. \A v \in Tabs : loading'[v] => step'[v] \in {"signin", "me"}
          BY <2>3, <3>4 DEF TypeOK
        <4>4. /\ loading' \in [Tabs -> BOOLEAN] /\ mounted' = mounted /\ primed' \in [Tabs -> BOOLEAN]
              /\ \A v \in Tabs : step'[v] \in {"idle", "signin", "signout", "change"} => mounted'[v]
          BY <2>3, <3>4 DEF TypeOK, Disturb
        <4>5. /\ accounts' \subseteq Users /\ live' \subseteq 1 .. issued' /\ issued' \in Sids
              /\ owner' \in [Sids -> accounts' \cup {None}] /\ taken' \subseteq Sids
              /\ \A s \in Sids \ live' : owner'[s] = None
          BY <1>15, <2>3, <3>1 DEF SignOut, TypeOK, Regenerated
        <4>6. jar' \in 0 .. issued' /\ csrf' \in Tokens /\ generated' \in 0 .. MaxTokens
          BY <2>3, <3>4 DEF TypeOK, Regenerated
        <4>7. /\ token' \in [Tabs -> Tokens] /\ me' \in [Tabs -> Users \cup {None}]
              /\ route' \in [Tabs -> Routes]
          BY <3>4 DEF TypeOK
        <4> QED
          BY <4>1, <4>2, <4>3, <4>4, <4>5, <4>6, <4>7 DEF TypeOK
      <3>6. Ids' /\ Single'
        <4>1. \A v \in Tabs : reply'[v].sid <= issued' /\ reply'[v].tok.of <= issued'
          <5>1. issued' \in Sids /\ issued <= issued' /\ Anonymous <= issued' /\ 0 <= issued'
            BY <2>3, <3>1 DEF TypeOK, Regenerated
          <5> QED
            BY <3>2, <3>3, <5>1, Held DEF TypeOK
        <4>2. Single' /\ csrf'.of <= issued' /\ \A v \in Tabs : token'[v].of <= issued'
          BY <2>3, <3>1, <3>4, Held DEF TypeOK, Single, Regenerated
        <4> QED
          BY <4>1, <4>2 DEF Ids
      <3>7. Booting'
        BY <1>15, <2>3 DEF SignOut, Call, TypeOK, Booting
      <3>8. Shows'
        BY <1>15, <2>3, <3>1 DEF SignOut, Call, TypeOK, Shows, Bound, Regenerated
      <3>9. Good'
        BY <1>15, <2>3, <3>1 DEF SignOut, Call, TypeOK, Good, Disturb
      <3> QED
        BY <3>5, <3>6, <3>7, <3>8, <3>9
    <2> QED
      BY <2>1, <2>2, <2>3
  <1>16. ASSUME NEW t \in Tabs, SignOutAnswered(t) PROVE Inv'
    <2>1. TypeOK'
      BY <1>16 DEF SignOutAnswered, Idle, TypeOK, Ids, Quiet, Replies, Steps, Routes, Disturb
    <2>2. Ids' /\ Single'
      BY <1>16 DEF SignOutAnswered, Idle, TypeOK, Ids, Single, Quiet
    <2>3. Booting'
      BY <1>16 DEF SignOutAnswered, Idle, TypeOK, Booting
    <2>4. Shows'
      BY <1>16 DEF SignOutAnswered, Idle, TypeOK, Shows, Bound
    <2>5. Good'
      BY <1>16 DEF SignOutAnswered, Idle, TypeOK, Good, Fits, Disturb
    <2> QED
      BY <2>1, <2>2, <2>3, <2>4, <2>5
  <1>17. ASSUME NEW t \in Tabs, SignOutLost(t) PROVE Inv'
    <2>1. TypeOK'
      BY <1>17 DEF SignOutLost, Idle, TypeOK, Quiet, Replies, Steps
    <2>2. Ids' /\ Single'
      BY <1>17 DEF SignOutLost, Idle, TypeOK, Ids, Single, Quiet
    <2>3. Booting'
      BY <1>17 DEF SignOutLost, Idle, TypeOK, Booting
    <2>4. Shows'
      BY <1>17 DEF SignOutLost, Idle, TypeOK, Shows, Bound
    <2>5. Good'
      BY <1>17 DEF SignOutLost, Idle, TypeOK, Good, Fits
    <2> QED
      BY <2>1, <2>2, <2>3, <2>4, <2>5
  <1>18. ASSUME NEW t \in Tabs, Change(t) PROVE Inv'
    <2>1. PICK ok \in BOOLEAN, sid \in {jar, SessionOf(jar)} : Unaccepted(t, "change", ok, sid)
      BY <1>18 DEF Change, Call, Answer, Unaccepted
    <2>2. sid \in 0 .. issued /\ UNCHANGED loading
      BY <1>18 DEF Change, TypeOK
    <2> QED
      BY <2>1, <2>2, UnacceptedInv
  <1>19. ASSUME NEW t \in Tabs, ChangeAnswered(t) PROVE Inv'
    <2>1. TypeOK'
      BY <1>19 DEF ChangeAnswered, Idle, TypeOK, Ids, Quiet, Replies, Steps, Routes, Disturb
    <2>2. Ids' /\ Single'
      BY <1>19 DEF ChangeAnswered, Idle, TypeOK, Ids, Single, Quiet
    <2>3. Booting'
      BY <1>19 DEF ChangeAnswered, Idle, TypeOK, Booting
    <2>4. Shows'
      BY <1>19 DEF ChangeAnswered, Idle, TypeOK, Shows, Bound
    <2>5. Good'
      BY <1>19 DEF ChangeAnswered, Idle, TypeOK, Good, Fits, Disturb
    <2> QED
      BY <2>1, <2>2, <2>3, <2>4, <2>5
  <1>20. ASSUME NEW t \in Tabs, ChangeLost(t) PROVE Inv'
    <2>1. TypeOK'
      BY <1>20 DEF ChangeLost, Idle, TypeOK, Quiet, Replies, Steps
    <2>2. Ids' /\ Single'
      BY <1>20 DEF ChangeLost, Idle, TypeOK, Ids, Single, Quiet
    <2>3. Booting'
      BY <1>20 DEF ChangeLost, Idle, TypeOK, Booting
    <2>4. Shows'
      BY <1>20 DEF ChangeLost, Idle, TypeOK, Shows, Bound
    <2>5. Good'
      BY <1>20 DEF ChangeLost, Idle, TypeOK, Good, Fits
    <2> QED
      BY <2>1, <2>2, <2>3, <2>4, <2>5
  <1>21. ASSUME UNCHANGED vars PROVE Inv'
    BY <1>21 DEF vars, TypeOK, Ids, Single, Booting, Shows, Bound, Good, Fits
  <1> QED
    BY <1>1, <1>2, <1>3, <1>4, <1>5, <1>6, <1>7, <1>8, <1>9, <1>10, <1>11, <1>12, <1>13, <1>14,
       <1>15, <1>16, <1>17, <1>18, <1>19, <1>20, <1>21 DEF Next, User, Settle

-----------------------------------------------------------------------------
\* A tab that goes from idle to a call with the token makes that call: no other
\* step does it.
LEMMA Calls ==
  ASSUME TypeOK, Next, NEW t \in Tabs, step[t] = "idle",
         step'[t] \in {"signin", "signout", "change"}
  PROVE  /\ (\E u \in Users : SignIn(t, u) \/ SignUp(t, u)) \/ SignOut(t) \/ Change(t)
         /\ step'[t] = "change" => Change(t)
  <1> USE DEF TypeOK, Set, Send
  <1>1. ASSUME NEW v \in Tabs, Settle(v) PROVE FALSE
    BY <1>1 DEF Settle, PrimeAnswered, PrimeRefused, PrimeLost, MeAnswered, MeFailed,
       MeKnown, SignInAnswered, SignInLost, SignOutAnswered, SignOutLost, ChangeAnswered,
       ChangeLost, FetchMe, Idle, Send
  <1>2. ASSUME NEW v \in Tabs, Navigate(v) \/ Boot(v) \/ Refetch(v) PROVE FALSE
    BY <1>2 DEF Navigate, Boot, Refetch, FetchMe
  <1>3. ASSUME NEW v \in Tabs, NEW u \in Users, SignIn(v, u) \/ SignUp(v, u)
        PROVE  v = t /\ step'[t] = "signin"
    BY <1>3 DEF SignIn, SignUp, Call
  <1>4. ASSUME NEW v \in Tabs, SignOut(v) PROVE v = t /\ step'[t] = "signout"
    BY <1>4 DEF SignOut, Call
  <1>5. ASSUME NEW v \in Tabs, Change(v) PROVE v = t
    BY <1>5 DEF Change, Call
  <1>6. ASSUME NEW s \in Sids, SessionEnds(s) \/ SessionCleared(s) PROVE FALSE
    BY <1>6 DEF SessionEnds, SessionCleared
  <1> QED
    BY <1>1, <1>2, <1>3, <1>4, <1>5, <1>6 DEF Next, User

\* Every such call is answered with who made it and whether its token fitted.
LEMMA Answered ==
  ASSUME TypeOK, NEW t \in Tabs,
         (\E u \in Users : SignIn(t, u) \/ SignUp(t, u)) \/ SignOut(t) \/ Change(t)
  PROVE  reply'[t].fits = Fits(t) /\ reply'[t].user = UserOf(jar)
  <1>1. \E ok, sid : reply' = Set(reply, t, Answer(t, ok, sid))
    <2>1. ASSUME NEW u \in Users, SignIn(t, u)
          PROVE  \E ok, sid : reply' = Set(reply, t, Answer(t, ok, sid))
      BY <2>1 DEF SignIn, Call, Answer
    <2>2. ASSUME NEW u \in Users, SignUp(t, u)
          PROVE  \E ok, sid : reply' = Set(reply, t, Answer(t, ok, sid))
      BY <2>2 DEF SignUp, Call, Answer
    <2>3. ASSUME SignOut(t) PROVE \E ok, sid : reply' = Set(reply, t, Answer(t, ok, sid))
      BY <2>3 DEF SignOut, Call, Answer
    <2>4. ASSUME Change(t) PROVE \E ok, sid : reply' = Set(reply, t, Answer(t, ok, sid))
      BY <2>4 DEF Change, Call, Answer
    <2> QED
      BY <2>1, <2>2, <2>3, <2>4
  <1> QED
    BY <1>1 DEF Answer, Set, TypeOK

-----------------------------------------------------------------------------
\* Types hold throughout, and the sign-in button spins only while a call of the
\* sign-in is in flight (stores/auth.ts:30-48).
THEOREM TypeCorrect == Spec => []TypeOK
  <1>1. Inv => TypeOK
    BY DEF Inv
  <1> QED
    BY InitInv, StepInv, <1>1, PTL DEF Spec

\* What a tab does, it does as the user it shows, whatever other tabs do, but in
\* a session that a sign-up took over (csrf.ts:10, auth.ts:92,130).
THEOREM ActsAsShownHolds == Spec => ActsAsShown
  <1> DEFINE Acts == \A t \in Tabs :
               step[t] = "idle" /\ step'[t] = "change" /\ reply'[t].ok =>
                   me[t] \in {None, reply'[t].user} \/ jar \in taken
  <1>1. Inv /\ [Next]_vars => [Acts]_vars
    <2> SUFFICES ASSUME Inv, Next, NEW t \in Tabs, step[t] = "idle", step'[t] = "change",
                        reply'[t].ok
                 PROVE  me[t] \in {None, reply'[t].user} \/ jar \in taken
      OBVIOUS
    <2>1. Change(t)
      BY Calls DEF Inv
    <2>2. reply'[t].user = UserOf(jar) /\ Fits(t) /\ UserOf(jar) # None
      <3>1. reply'[t].user = UserOf(jar)
        BY <2>1, Answered DEF Inv
      <3>2. Fits(t) /\ UserOf(jar) # None
        BY <2>1 DEF Change, Call, Set, Inv, TypeOK
      <3> QED
        BY <3>1, <3>2
    <2>3. token[t].of = jar /\ jar \in live
      BY <2>2 DEF Fits
    <2> QED
      BY <2>2, <2>3 DEF Inv, Shows, Bound, UserOf
  <1> QED
    BY InitInv, StepInv, <1>1, PTL DEF Spec, ActsAsShown, Acts

\* A tab that took its token under a live session is not refused for its token
\* while that session and the cookies last (csrf.ts:4-8).
THEOREM SignedInWorksHolds == Spec => SignedInWorks
  <1> DEFINE Works == \A t \in Tabs : Refused(t) /\ primed[t] => token[t].of = Anonymous
  <1>1. Inv /\ [Next]_vars => [Works]_vars
    <2> SUFFICES ASSUME Inv, Next, NEW t \in Tabs, Refused(t), primed[t],
                        token[t].of # Anonymous
                 PROVE  FALSE
      OBVIOUS
    <2>1. Fits(t)
      BY DEF Inv, Good
    <2>2. reply'[t].fits = Fits(t)
      BY Calls, Answered DEF Inv, Refused
    <2> QED
      BY <2>1, <2>2 DEF Refused
  <1> QED
    BY InitInv, StepInv, <1>1, PTL DEF Spec, SignedInWorks, Works
=============================================================================
