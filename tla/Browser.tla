------------------------------ MODULE Browser -------------------------------
(***************************************************************************)
(* The tabs of one browser and the server's CSRF check. Tabs share the     *)
(* cookies: the session id and the CSRF cookie. Each holds its own CSRF    *)
(* token, taken when it boots, and shows the user it was last told.        *)
(*                                                                         *)
(* A token is bound to a session id. A request without a live session gets *)
(* an id that is not kept, so that no later request has it. A refused call *)
(* is answered 500 by the error handler, not 403: the client's retry       *)
(* (client.ts:81-84) never happens and is not modelled.                    *)
(*                                                                         *)
(* A request reaches the server as it is sent; its answer, with the        *)
(* cookies it sets, comes at any later time, or never. A tab has one call  *)
(* in flight; a second one of its own meets what another tab's would.      *)
(***************************************************************************)
EXTENDS Naturals

CONSTANTS
    Tabs, Users,
    MaxSessions,  \* bound: session ids handed out
    MaxTokens,    \* bound: CSRF tokens generated
    None

ASSUME BrowserAssumption ==
    /\ None \notin Users
    /\ MaxSessions \in Nat \ {0} /\ MaxTokens \in Nat

Sids == 1 .. MaxSessions
Anonymous == 0
\* "home": a page for the signed in; "signin": that page and the sign-up page.
Routes == {"home", "signin"}
Steps == {"closed", "blank", "prime", "me", "signin", "signout", "change", "idle"}
NoToken == [of |-> Anonymous, n |-> 0]
Tokens == [of : Sids \cup {Anonymous}, n : 0 .. MaxTokens]

VARIABLES
    accounts,
    live, owner, issued, \* sessions kept, their users (or None), ids given out
    jar, csrf,        \* the two cookies (jar: Anonymous if there is none)
    generated,        \* how many tokens were generated
    step, reply,      \* per tab: the call in flight, what the server did with it
    token, me, route, \* per tab: csrfToken, auth.me, the current route
    loading, mounted, \* per tab: auth.loading; the application is mounted
    primed,           \* history, per tab: it took its token and since then no
                      \* session and no cookie changed
    taken             \* history: sessions that a sign-up took over

sessions == <<accounts, live, owner, issued, taken>>
cookies  == <<jar, csrf>>
screen   == <<token, me, route, loading, mounted>>
vars     == <<sessions, generated, cookies, step, reply, screen, primed>>

\* fits: the token was accepted; ok: so was the call; sid: the session cookie that
\* the answer sets; user: who made the call; tok, seen, new: see CsrfReply.
Quiet == [fits |-> FALSE, ok |-> FALSE, sid |-> Anonymous, user |-> None,
          tok |-> NoToken, seen |-> NoToken, new |-> FALSE]
Replies == [fits : BOOLEAN, ok : BOOLEAN, sid : Sids \cup {Anonymous}, user : Users \cup {None},
            tok : Tokens, seen : Tokens, new : BOOLEAN]

\* A browser that holds the cookie of a session from before, which may have ended.
Init ==
    /\ accounts \in SUBSET Users /\ live \in SUBSET {1} /\ issued = 1 /\ taken = {}
    /\ \E u \in accounts \cup {None} : owner = [s \in Sids |-> IF s \in live THEN u ELSE None]
    /\ generated = 0 /\ jar = 1 /\ csrf = NoToken
    /\ step = [t \in Tabs |-> "closed"] /\ reply = [t \in Tabs |-> Quiet]
    /\ token = [t \in Tabs |-> NoToken] /\ me = [t \in Tabs |-> None]
    /\ route = [t \in Tabs |-> "signin"]
    /\ loading = [t \in Tabs |-> FALSE] /\ mounted = [t \in Tabs |-> FALSE]
    /\ primed = [t \in Tabs |-> FALSE]

Set(f, t, x) == [f EXCEPT ![t] = x]

-----------------------------------------------------------------------------
(* the server *)

\* express-session: the id of a request that brings this cookie
SessionOf(cookie) == IF cookie \in live THEN cookie ELSE Anonymous
UserOf(cookie) == IF cookie \in live THEN owner[cookie] ELSE None

\* csrfProtection
Fits(t) == token[t] = csrf /\ csrf.of \in live /\ csrf.of = jar

\* mutant of Reusable: every GET /csrf makes a new token
NeverReused == FALSE

\* A cookie that is good for the session is handed out again.
Reusable == csrf.of \in live /\ csrf.of = jar

\* GET /csrf
CsrfReply ==
    [Quiet EXCEPT !.sid = SessionOf(jar), !.seen = csrf, !.new = csrf.of \notin live \cap {jar},
                  !.tok = IF Reusable THEN csrf ELSE [of |-> SessionOf(jar), n |-> generated + 1]]

\* GET /me, with the cookie the browser has then
MeReply(cookie) == [Quiet EXCEPT !.sid = SessionOf(cookie), !.user = UserOf(cookie)]

Send(t, what, r) == step' = Set(step, t, what) /\ reply' = Set(reply, t, r)
FetchMe(t, cookie) == Send(t, "me", MeReply(cookie))
Idle(t) == Send(t, "idle", Quiet)

\* Every answer under a live session sets its cookie again (rolling).
Rolled(t) == IF reply[t].sid = Anonymous THEN jar ELSE reply[t].sid

Disturb(changed) == primed' = [t \in Tabs |-> primed[t] /\ ~ changed]

\* Sessions that end or change hands by requests of other browsers: a password
\* reset, pruning; an account disabled or deleted (loadCurrentUser).
SessionEnds(s) ==
    /\ s \in live /\ live' = live \ {s} /\ owner' = Set(owner, s, None)
    /\ Disturb(s = jar)
    /\ UNCHANGED <<accounts, issued, taken, generated, cookies, step, reply, screen>>

SessionCleared(s) ==
    /\ s \in live /\ owner[s] # None /\ owner' = Set(owner, s, None)
    /\ UNCHANGED <<accounts, live, issued, taken, generated, cookies, step, reply, screen, primed>>

-----------------------------------------------------------------------------
(* the router *)

\* beforeEach, whose redirects the guard lets pass.
Land(user) == IF user = None THEN "signin" ELSE "home"

Navigate(t) ==
    /\ mounted[t] /\ route' = Set(route, t, Land(me[t]))
    /\ UNCHANGED <<sessions, generated, cookies, step, reply, token, me, loading, mounted, primed>>

-----------------------------------------------------------------------------
(* boot: a tab is opened or loaded again *)

\* app.use(router) starts the first navigation before anybody is known; the CSRF
\* token is asked for.
Boot(t) ==
    /\ generated < MaxTokens
    /\ generated' = IF Reusable THEN generated ELSE generated + 1
    /\ me' = Set(me, t, None) /\ token' = Set(token, t, NoToken)
    /\ route' = Set(route, t, Land(None))
    /\ loading' = Set(loading, t, FALSE) /\ mounted' = Set(mounted, t, FALSE)
    /\ primed' = Set(primed, t, FALSE)
    /\ Send(t, "prime", CsrfReply)
    /\ UNCHANGED <<sessions, cookies>>

\* Who still has a token that should be good: not after a change of the session
\* cookie, nor when two tabs asked for a token at the same time.
Undisturbed(t) == Rolled(t) = jar /\ ~reply[t].new /\ reply[t].seen = csrf

PrimeAnswered(t) ==
    /\ step[t] = "prime"
    /\ token' = Set(token, t, reply[t].tok) /\ csrf' = reply[t].tok /\ jar' = Rolled(t)
    /\ FetchMe(t, Rolled(t))
    /\ primed' = [u \in Tabs |-> IF u = t THEN reply[t].sid = SessionOf(Rolled(t))
                                 ELSE primed[u] /\ Undisturbed(t)]
    /\ UNCHANGED <<sessions, generated, me, route, loading, mounted>>

\* ensureCsrf ignores an answer that is not ok.
PrimeRefused(t) ==
    /\ step[t] = "prime" /\ FetchMe(t, jar)
    /\ UNCHANGED <<sessions, generated, cookies, screen, primed>>

\* ensureCsrf rejects when there is no answer: the application is never mounted.
PrimeLost(t) ==
    /\ step[t] = "prime" /\ Send(t, "blank", Quiet)
    /\ UNCHANGED <<sessions, generated, cookies, screen, primed>>

SignInEnds(t) == loading' = Set(loading, t, FALSE)

\* The end of fetchMe: after boot, after sign-in (then the page asked for is
\* shown), and from the settings page.
MeKnown(t, user) ==
    /\ Idle(t)
    /\ me' = Set(me, t, user) /\ mounted' = Set(mounted, t, TRUE)
    /\ SignInEnds(t)
    /\ route' = IF loading[t] THEN Set(route, t, Land(user)) ELSE route
    /\ UNCHANGED <<sessions, generated, csrf, token>>

MeAnswered(t) ==
    /\ step[t] = "me" /\ MeKnown(t, reply[t].user)
    /\ jar' = Rolled(t) /\ Disturb(Rolled(t) # jar)

MeFailed(t) == step[t] = "me" /\ MeKnown(t, None) /\ UNCHANGED <<jar, primed>>

Refetch(t) ==
    /\ step[t] = "idle" /\ route[t] = "home" /\ FetchMe(t, jar)
    /\ UNCHANGED <<sessions, generated, cookies, screen, primed>>

-----------------------------------------------------------------------------
(* calls that carry the token *)

\* What the server does (accepted) and answers to a call whose token fits, or with
\* a refusal of csrfProtection or of the handler (a wrong password, nobody signed in).
Call(t, what, mayOk, accepted, sid) ==
    /\ step[t] = "idle" /\ step' = Set(step, t, what)
    /\ \E ok \in BOOLEAN :
         /\ ok => Fits(t) /\ mayOk
         /\ IF ok THEN accepted ELSE UNCHANGED <<sessions, primed>>
         /\ reply' = Set(reply, t, [Quiet EXCEPT
                !.fits = Fits(t), !.ok = ok, !.user = UserOf(jar),
                !.sid = IF ok THEN sid ELSE SessionOf(jar)])
    /\ UNCHANGED <<generated, cookies, token, me, route, mounted>>

\* mutant of Regenerated: the session keeps its id
Kept == jar

\* The id of the new session of a sign-in.
Regenerated == issued + 1

\* POST /auth/signin; loading is set by the store.
SignIn(t, u) ==
    /\ route[t] = "signin" /\ u \in accounts /\ loading' = Set(loading, t, TRUE)
    /\ Call(t, "signin", issued < MaxSessions,
            /\ issued' = issued + 1 /\ live' = (live \ {jar}) \cup {Regenerated}
            /\ owner' = [owner EXCEPT ![jar] = None, ![Regenerated] = u]
            /\ Disturb(TRUE) /\ UNCHANGED <<accounts, taken>>,
            Regenerated)

\* POST /auth/signup: the session of the request gets a new user.
SignUp(t, u) ==
    /\ route[t] = "signin" /\ u \notin accounts /\ loading' = Set(loading, t, TRUE)
    /\ Call(t, "signin", TRUE,
            /\ accounts' = accounts \cup {u} /\ owner' = Set(owner, jar, u)
            /\ taken' = taken \cup {jar}
            /\ UNCHANGED <<live, issued, primed>>,
            jar)

SignInAnswered(t) ==
    /\ step[t] = "signin" /\ jar' = Rolled(t) /\ Disturb(Rolled(t) # jar)
    /\ IF reply[t].ok THEN FetchMe(t, Rolled(t)) /\ UNCHANGED loading
       ELSE Idle(t) /\ SignInEnds(t)
    /\ UNCHANGED <<sessions, generated, csrf, token, me, route, mounted>>

SignInLost(t) ==
    /\ step[t] = "signin" /\ Idle(t) /\ SignInEnds(t)
    /\ UNCHANGED <<sessions, generated, cookies, token, me, route, mounted, primed>>

\* POST /auth/signout: nobody need be signed in.
SignOut(t) ==
    /\ route[t] = "home" /\ UNCHANGED loading
    /\ Call(t, "signout", TRUE,
            /\ live' = live \ {jar} /\ owner' = Set(owner, jar, None) /\ Disturb(TRUE)
            /\ UNCHANGED <<accounts, issued, taken>>,
            Anonymous)

\* The cookie is cleared whichever session it names by then; the page is left only
\* if the call went well, the user forgotten in any case.
SignOutAnswered(t) ==
    /\ step[t] = "signout" /\ Idle(t) /\ me' = Set(me, t, None)
    /\ jar' = IF reply[t].ok THEN Anonymous ELSE Rolled(t)
    /\ Disturb(jar' # jar)
    /\ route' = IF reply[t].ok THEN Set(route, t, "signin") ELSE route
    /\ UNCHANGED <<sessions, generated, csrf, token, loading, mounted>>

SignOutLost(t) ==
    /\ step[t] = "signout" /\ Idle(t) /\ me' = Set(me, t, None)
    /\ UNCHANGED <<sessions, generated, cookies, token, route, loading, mounted, primed>>

\* Any other call that writes and needs a user. The calls of the verification and
\* reset pages need none; these pages are not modelled.
Change(t) ==
    /\ route[t] = "home" /\ UNCHANGED loading
    /\ Call(t, "change", UserOf(jar) # None, UNCHANGED <<sessions, primed>>, jar)

ChangeAnswered(t) ==
    /\ step[t] = "change" /\ Idle(t) /\ jar' = Rolled(t) /\ Disturb(Rolled(t) # jar)
    /\ UNCHANGED <<sessions, generated, csrf, screen>>

ChangeLost(t) ==
    /\ step[t] = "change" /\ Idle(t)
    /\ UNCHANGED <<sessions, generated, cookies, screen, primed>>

-----------------------------------------------------------------------------
\* The continuation of a call that is over, one way or another.
Settle(t) ==
    \/ PrimeAnswered(t) \/ PrimeRefused(t) \/ PrimeLost(t) \/ MeAnswered(t) \/ MeFailed(t)
    \/ SignInAnswered(t) \/ SignInLost(t) \/ SignOutAnswered(t) \/ SignOutLost(t)
    \/ ChangeAnswered(t) \/ ChangeLost(t)

User(t) ==
    \/ Navigate(t) \/ Boot(t) \/ Refetch(t)
    \/ \E u \in Users : SignIn(t, u) \/ SignUp(t, u)
    \/ SignOut(t) \/ Change(t)

Next ==
    \/ \E t \in Tabs : User(t) \/ Settle(t)
    \/ \E s \in Sids : SessionEnds(s) \/ SessionCleared(s)

Spec == Init /\ [][Next]_vars

-----------------------------------------------------------------------------
\* Types, and: the sign-in button spins only while a call of the sign-in is in
\* flight (stores/auth.ts:30-48).
TypeOK ==
    /\ \A t \in Tabs : loading[t] => step[t] \in {"signin", "me"}
    /\ accounts \subseteq Users /\ live \subseteq 1 .. issued /\ issued \in Sids
    /\ owner \in [Sids -> accounts \cup {None}] /\ taken \subseteq Sids
    /\ \A s \in Sids \ live : owner[s] = None
    /\ jar \in 0 .. issued /\ csrf \in Tokens /\ generated \in 0 .. MaxTokens
    /\ step \in [Tabs -> Steps] /\ reply \in [Tabs -> Replies]
    /\ token \in [Tabs -> Tokens] /\ me \in [Tabs -> Users \cup {None}]
    /\ route \in [Tabs -> Routes]
    /\ loading \in [Tabs -> BOOLEAN] /\ mounted \in [Tabs -> BOOLEAN]
    /\ primed \in [Tabs -> BOOLEAN]
    /\ \A t \in Tabs : step[t] \in {"idle", "signin", "signout", "change"} => mounted[t]

\* What a tab does, it does as the user it shows (if it shows one), though other
\* tabs sign in and out and answers set cookies late: its token is bound to the
\* session it booted with (csrf.ts:10), and a sign-in never reuses a session
\* (auth.ts:130). A sign-up does (auth.ts:92): its session is excepted.
ActsAsShown ==
    [][\A t \in Tabs :
          step[t] = "idle" /\ step'[t] = "change" /\ reply'[t].ok =>
              me[t] \in {None, reply'[t].user} \/ jar \in taken]_vars

\* csrfProtection refuses a call of this tab.
Refused(t) == step[t] = "idle" /\ step'[t] \in {"signin", "signout", "change"} /\ ~reply'[t].fits

\* A tab that took its token under a live session is not refused for its token
\* while that session and the cookies last, whatever other tabs do: GET /csrf hands
\* a good cookie out again (csrf.ts:4-8).
SignedInWorks == [][\A t \in Tabs : Refused(t) /\ primed[t] => token[t].of = Anonymous]_vars

\* app.ts:82-83: the call on boot primes the cookie and the token: without the
\* exception for those who are not signed in.
PrimedAccepted == [][\A t \in Tabs : Refused(t) => ~primed[t]]_vars
=============================================================================
