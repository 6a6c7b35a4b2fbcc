# mcsw in TLA+

Models, checks and proofs for **mcsw**, a web front end for a fleet of Minecraft
server managers (mcsm). A Node/Express process keeps its own data in SQLite
(through Prisma), talks HTTP and WebSocket to the mcsm instances, and serves a
Vue application.

Everything below is translated from the code under `server/` and `web/`. One
fact shapes every model: the server is a single-threaded process in which any
number of requests are in flight, each an `async` function. Between two `await`s
anything else may run. A handler is therefore modelled as a sequence of steps,
one per `await` on a shared resource (a database round trip, an upstream call, a
password hash), and what it read earlier is kept in its own locals. One SQL
statement, or one `prisma.$transaction`, is one step: `db.ts` opens one
`better-sqlite3` connection.

## Inventory

| Component | State | Operations | Talks to |
|---|---|---|---|
| Accounts (`routes/auth.ts` signup and verify-email, `routes/invitations.ts`, `routes/admin-users.ts`, `scripts/seed.ts`) | tables `users`, `invitations`, `email_tokens` | signup, verify, create/delete invitation, patch/delete user | mailer, audit, sessions |
| Sessions and credentials (`auth/session-store.ts`, `routes/auth.ts` sign-in, sign-out, reset, `routes/me.ts` password, `app.ts`) | tables `sessions`, `password_resets`, the password hash | load, touch, save, regenerate, destroy, prune; reset request/confirm; change password | express-session (external) |
| Browser (`auth/csrf.ts`, `app.ts`, `error.ts`; `web/src/api/client.ts`, `stores/auth.ts`, `router/`, `main.ts`) | two cookies that all tabs share; per tab the CSRF token, the user shown, the route, the call in flight | boot, `GET /csrf`, `GET /me`, guard, sign in, up and out, change | sessions; csrf-csrf (external) |
| Fleet (`mcsm/fleet.ts`, `mcsm/bootstrap.ts`, `routes/mcsm-instances.ts`) | table `mcsm_instances`, the in-memory fleet cache and the federation cache | sync, get, invalidate, probe; create, patch, delete instance | every route that reaches a mcsm |
| Scanner (`mcsm/scanner.ts`, `POST /scan`) | timer, table `mcsm_instances` | tick, admin scan, record | fleet |
| Slots and server actions (`routes/slots.ts`, `routes/server-actions.ts`, `grants/check.ts`, `mcsm/client.ts`, `audit.ts`) | grants, audit log; upstream: what each slot mounts | resolve, authorise, act upstream, audit, invalidate | mcsm instances |
| WebSocket proxy (`mcsm/ws-proxy.ts`) | one browser and one upstream socket per stream | upgrade, forward, close, error | browser, mcsm |
| Links (`routes/grants.ts`, `routes/me.ts` Mojang link, `mojang/api.ts`) | tables `server_grants`, `mojang_accounts` | upsert/delete grant, link/unlink | Mojang API |
| Lifecycle (`index.ts`, `app.ts`) | the listening server, timers, the database handle | boot, shut down, be killed | all |
| Pages (`web/src/pages`, `components/slot`, `components/LogStream.vue`) | per page: its subject, what it shows, spinner, error, draft, loads in flight; a socket handle | load, poll, call, switch the subject, open and close the socket | server |

## What is hard, and what correctness means

* **Accounts.** Checks and writes are separate round trips. Correct means: one
  account per address, signup all-or-nothing with its invitation, no dangling
  references, invitations used once, and never a platform without an admin.
* **Sessions.** A request loads a session, works, then touches or saves it, while
  sign-out, reset and pruning delete rows. Correct means: a removed session never
  comes back, a reset token works once, a reset ends the sessions opened with the
  old password.
* **Fleet.** Two caches in front of a table and of remote servers. Correct means:
  what is served was true at a bounded time in the past, and the primary is unique.
* **Slots.** Authorisation is decided on one upstream answer and the action is
  addressed by slot name in a later call; calls time out although they may have
  taken effect. Correct means: nothing is done to a server the caller held no
  grant for, the audit log never lies, a cached answer never hides a settled
  action for longer than its time to live.
* **WebSocket proxy.** Five awaits decide whether to dial; then two sockets,
  each with open, close and error events in any order, and exceptions that end
  the process. Correct means: nobody is let in on rights never held, a closed
  side closes the other, no stream stays half open, every request is decided.
* **Browser.** Tabs share cookies and nothing else: a token is bound to a session
  that another tab may replace, and every answer sets a cookie, late or never.
  Correct means: a tab acts as the user it shows; a good token keeps working.
* **Pages.** Timers, buttons, route changes and the user's calls start loads that
  overlap and answer in any order, while sockets are replaced. Correct means: an
  idle page shows the right subject and the user's own changes, its indicators
  are true, its calls do not take back what others wrote, and a page that polls
  ends up current.

PROJECT.json lists every hazard at its line with the properties aimed at it.

## Modules

| Module | Models | State (and what it is in the code) |
|---|---|---|
| `Accounts` | signup, verify-email, invitations, admin user endpoints | rows and columns of `users`, `invitations`, `email_tokens`; `pc`, `loc`: where each in-flight handler is and what it read |
| `Registry` | what the account endpoints promise, request by request and without their round trips: a lax version (what every run keeps) and a strict one (what the checks are meant to give) | accounts and their columns, invitations and who used them |
| `Instances` | the fleet endpoints, scanner, bootstrap | table `mcsm_instances` column by column; `boot`: bootstrap entries still to apply; jobs in flight |
| `FleetPromise` | what `fleet.ts` promises its callers, without any mechanism | what the table says, what it said since each open call began, what callers see |
| `Fleet` | `sync`, `getPrimary`, `invalidateFleet`, `probeAll`, on top of `Instances` | the `cache` map, `primaryId`, whether `lastSync` is recent (`fresh`), the calls inside `sync` |
| `Sessions` | session store, express-session's rules, sign-in/out, reset, password change | tables `sessions`, `password_resets`; a password is the number of resets before it; requests in flight |
| `CredentialPromise` | what the routes promise about passwords and sessions: a proof at one moment, its use at one later moment, a reset that ends every session at once, ended sessions that stay ended | sessions, the password in force, proofs held by requests, sessions spent |
| `Slots` | slot lifecycle, server actions, grants, audit, federation cache | tables `server_grants`, `audit_log`; `fedCache`; requests in flight; mcsm (`wire`, `mounted`) as an external actor |
| `WsProxy` | the upgrade handler, the dialling, the pipe, shutdown and crash | `alive`, `draining`; `pc`, `saw` per upgrade; the readyState of both sockets (`cl`, `up`); the caller's rights and the slots as an external world |
| `Stream` | the socket of a page: `open()`, `close()` and the browser's events | readyState per socket, the handle `ws`, `connected`, `lines` |
| `Pages` | the 17 pages that load, as one machine on top of `Stream`; a record per page says when it loads and what it does with a failure | `subject`, `shown`, `loading`, `error`, `edited`, the loads and the call in flight; the server's data as a number per key |
| `Browser` | the tabs of one browser and the CSRF check of the server | sessions kept, both cookies, and per tab token, user, route, call and answer |
| `MC*` | constants, operations and symmetries of the runs | |
| `*Proofs` (`Accounts`, `Instances`, `Fleet`, `Slots`, `Sessions`, `WsProxy`, `Browser`, `Pages`) | theorems about the module they extend | |

`Fleet` runs the actions of `Instances` beside its own, `Pages` those of
`Stream`; `FleetPromise` is what `Fleet` is shown to implement, `Registry` what `Accounts`
is, `CredentialPromise` what `Sessions` is. `Slots` composes
handlers, grants, audit and the federation cache; `WsProxy` composes the proxy
with the life of the process.

How code becomes actions:

* One action per endpoint *step*. `InviteDeleteRead` and `InviteDelete` are the
  two round trips of `DELETE /invitations/:id`; between them any other action
  may happen, and the second acts on what the first read.
* A refused request that read nothing changes nothing and is no step. An `await`
  on something nobody else writes (hashing, sending mail) is merged with its
  neighbour unless its failure matters: `SignupMail` is a step because a crash
  before it leaves an account whose token was never mailed.
* `Restart` drops every request, cache and timer of the process and keeps the
  tables. A crash may fall between any two steps.
* Ids come from pools and are never handed out twice, as with `cuid()`.
* Time is not counted: an invitation, token, session or cached answer *may*
  expire at any moment it is there.
* Variables called history in a module are read by properties only.
* An operator with `mutant` beside it is used by no action; put in the place of
  the definition that follows it, it breaks the property it was written for.

In `Slots` operations are grouped by what their handlers do differently: which
capability is checked, whether there is an audit row, whether the cache is
cleared. `update` stands for every audited `admin` action, `observe` for every
unaudited read. The path of a request is look-up, grant check, send, answer (or
none), audit. `start` skips the look-up, because its body names the server; the
slot page shows what the look-up returned. mcsm may carry an action out after
the caller gave up on it, refuse it, or remount a slot on its own.

In `Pages` data is what the properties tell apart: each write gets the next
number, a load reads the numbers of its subject, a call writes the keys it
carries (one, those edited, or all) over what it was based on. The pages differ
in fifteen fields; `AllPages` gives them, and `map` the lines of each page.

In `Browser` the server does its part when the request is sent and the answer
comes at any later time with the cookies it sets, or never. One browser is
enough: cookies of others are theirs alone, and their effect on sessions (reset,
pruning, deletion) is the action that ends a session from elsewhere.

## Runs

| Run | Instance | Question |
|---|---|---|
| `accounts_onboarding` | 3 users, 3 addresses, 2 invitations, 2 requests; patches promote, so that an admin who invites can be deleted by another before the invitation is inserted, and is kept by `Restrict` after it; invitations do not expire | do overlapping signups, verifications, promotions, deletions and invitation changes act as if each were done at once (`ActsAtOnce`: `Accounts` implements the lax `Registry`, whose addresses are unique), are references whole (`References`), the invitation ledger exact (`InviteLedger`) and verification tied to the token (`VerifiedByToken`)? |
| `accounts_apart` | 3 users, 2 addresses, 1 invitation, 2 requests, every endpoint and patch, from an empty database, `SIGNUP_REQUIRES_INVITE` either way across restarts; states where the overlaps of `Apart` occur are cut off | which overlaps have to be excluded for the checks to hold: `InviteSingleUse`, `AdminRemains`, `SoleFounder`, and `ChecksHold`: the strict `Registry` is implemented |
| `accounts_no_admin` | 2 requests | `AdminRemains` **violated**: see Findings |
| `instances` | 3 ids, 2 URLs, 4 names, 2 jobs, 4 request bodies, 2 scan hits, 1 bootstrap entry | one primary at most, unique names, the primary given up on request only (`AtMostOnePrimary`, `UniqueNames`, `PrimaryKept`) |
| `fleet` | 2 ids, 1 admin job, 1 caller, the probe timer, 1 bootstrap entry | is there always a primary to serve (`PrimaryServed`), is the cache coherent (`Coherent`), does it implement `FleetPromise` (`KeepsPromise`), does it heal (`Heals`), and can what is expected to go on always go on (`NeverStuck`)? |
| `sessions` | 1 user, 2 session ids, 1 reset token, 2 requests | do the routes act as if a proof, a sign-in, a change and a reset were each one step, and does an ended session stay ended (`KeepsCredentials`: `Sessions` implements `CredentialPromise`); does a reset end what the old password opened (`OldCredentialsDie`); is no live session lost (`LiveStays`)? |
| `slots` | 1 user, 2 servers, 1 slot, 2 requests, 9 operations, 2 permission blocks | is an action ever carried out without a grant (`GrantHeld`), does an audit row ever lie (`AuditTruthful`), does every grant row refer to a user who is there (`TypeOK`)? |
| `slots_cache` | 1 slot, 2 lifecycle requests, 2 overlapping fetches | how stale can a federation answer be (`SettledSeen`, `CatchesUp`), does every request end (`Ends`), and can every request, fetch and cached answer always go on (`NeverStuck`)? |
| `ws_proxy` | 2 streams, 1 slot, 1 server, 2 changes of rights or mounts | is a peer dialled only on rights that were held (`Admitted`), does no stream stay half open (`NoHalfOpen`), is every request decided (`Decided`), do both sides end together (`StreamsEnd`), is a request or a socket ever stuck (`NeverStuck`)? |
| `pages` | all 17 pages, 2 subjects, 2 sockets, 2 keys, 2 writes, 2 loads in flight | `HeldOrEnding`, `OwnLines`, `IndicatorsTrue`, `RightSubject`, `SeesOwnActs`, `NoRevert`, and `PollHeals` for those with a timer |
| `browser` | 2 tabs, 2 users, 2 session ids, 2 tokens | does a tab act as the user it shows (`ActsAsShown`), does a good token keep working (`SignedInWorks`)? |
| `browser_csrf` | the same | `PrimedAccepted` **violated**: see Findings |

The type invariants are proved, for every value of the constants; only that of
`Slots`, which carries the foreign keys of the grants, is also a property of a
run. `UniqueEmail` and `UsedInviteKept` are proved and follow from the
refinements `ActsAtOnce` and `ChecksHold`; `InviteOnly` and `NoSelfLoss` of
`Accounts`, `EndedStays` of `SessionsProofs` (which says of the rows what
`KeepsCredentials` says of open sessions) and `ScansAddUnknown` of
`InstancesProofs` are proved only.

Why the bounds suffice. Every race in this code is between *two* handlers, or a
handler and a timer or a restart: an invariant that two overlapping requests
keep from every reachable table would need a third request only if its steps
read two other requests' effects in between, and the steps here re-read the
table in each round trip. Three users let an admin act on another while a third
exists; two invitations, names, servers or sessions are what uniqueness and
confusion need: with two an invited account that is promoted can invite in turn,
and `Restrict` protects a creator who is not the seeded admin. The request pool of `Slots` is used once per request, which is
why two are enough for an action, a later one and everything mcsm does alone.
Two sockets are what a replaced one and its successor need, two loads what
overtaking needs, two tabs what stale tokens need; the second stream of `ws_proxy`
is there because an exception on the first ends it. Accounts share nothing in
`Sessions` but session ids: one user with two ids shows the races on a row and on
a password, the theorems take any number of users. The second session id of
`browser` is what replaces the one its tabs booted with. The theorems below hold
for any number of all of these.

`Ops` and `Patches` say which endpoints are called and which bodies
`PATCH /admin/users/:id` is sent; the demotions, disablings and expired
invitations that `accounts_onboarding` leaves out are in `accounts_apart`, and the
theorems hold for any choice. `Suffixes` bounds the run of `-2`, `-3`... a scan may try; four exceed what
three ids can occupy. `MaxChanges`, `MaxConns`, `MaxWrites`, `MaxLoads`,
`MaxSessions` and `MaxTokens` are named after what they bound; a page whose calls
carry a single key is looked at with one. The password number of `Sessions` is
bounded by its single token.

### Fairness

* `fleet`: a started `sync` continues (the database answers), the bootstrap
  loop runs on, and the probe timer keeps calling `probeAll`
  (`setInterval`, `index.ts`). Nothing is assumed about callers, admins or the
  time to live. `Heals` needs of the callers of `sync` only the probe, whose
  reload is forced (`BootFair`, `GetFair`, `ProbeFair`).
* `slots_cache`: a started handler continues, because the database answers and
  `client.ts:81` aborts a call that has no answer after 10 s (reading a body
  is limited by the HTTP library); a fetch of a federation answer ends by the
  same timer; a cached answer's 5 s pass. mcsm is assumed to do nothing at all.

* `ws_proxy`. Each await of the upgrade handler settles, and `ws` destroys a
  socket that is closing after its 30 s. Nothing is assumed about dialling, which
  no timer bounds, about a connection lost without a word, or about the process
  being stopped or restarted.
* `pages`. The timers of the pages that have one fire (weak fairness); of the
  loads such a page starts again and again some are read and answered (strong
  fairness). Nothing else: no user acts, no socket event comes.

### Findings

* `accounts_no_admin` (comment against code). The guard for the last admin counts
  in one round trip and writes in another, and only for a demotion: two admins
  who disable, demote or delete each other leave none. If no two
  such requests overlap an admin remains, whatever else runs (`accounts_apart`,
  and the theorem `AdminRemainsApart`).
* `browser_csrf` (code). `csrf.ts:10` binds a token to the id of the request's
  session, and `app.ts:57-58` keeps no session for a visitor: the token taken on
  boot never fits the sign-in or sign-up it is for. The library's error is no
  `HttpError` and is answered 500, so the retry of `client.ts:80-84`, which waits
  for a 403, does not happen; nor would it help. What works is a browser that
  still holds a live session: hence the initial states of `Browser`, and what
  `SignedInWorks` says.

### Known limits

The properties above are exact: where the code promises less than one would wish,
the property says so, and the model contains the behaviour. A reader of the code
should know these.

* Four promises of the accounts hold exactly as long as three overlaps do not
  happen (`Apart`, run `accounts_apart`; theorems for any number of requests). An
  admin remains, and only the first account becomes admin by signing up, if no two
  requests that may take an admin away are past their check at once
  (`OneRemoval`); an invitation makes one account if no two signups hold it
  (`OneSignupPerInvite`); a used invitation stays if none is withdrawn while a
  signup holds it (`NoneWithdrawnInUse`). Any other requests may overlap.
* Mail that fails or a crash after the commit of a signup (`auth.ts:85`) leaves an
  account whose token was never sent; nothing sends another.
* A sign-in that compared the old password before a reset committed saves its
  session after it (against `README.md:107`); `OldCredentialsDie` excepts the
  accounts where an older credential was in use at that moment. For all others
  the README's line holds as written (`ResetEndsSessions`).
* Two scans that overlap look a URL up before either inserts it, and record the
  peer twice (`scanner.ts:134,140`). Only a job that writes the very URL in that
  gap can make it so (`ScansRecordOnce`).
* An action whose answer is late or lost is carried out and leaves no audit row
  (against `README.md:111`); `audit.ts:28` swallows a failing write by design.
  What holds is the converse, `AuditTruthful`.
* The proxy: rights are not checked again during a stream; nothing bounds
  dialling; a close without a code (1005) or a lost connection (1006) is forwarded
  as a code that may not be sent (`ws-proxy.ts:113`) and the exception ends the
  process, as does a database error in the handler (`ws-proxy.ts:40`). With open
  streams a shutdown always takes its 10 s timer.
* The browser: a sign-up reuses the session of its request (`auth.ts:92`), so that
  another tab may act as a user it does not show (excepted in `ActsAsShown`, as
  `taken`); a refused sign-out forgets the user in the tab while the session
  lives (`stores/auth.ts:53`); after a sign-in the tab's own token fits no longer
  until it loads again; a late answer brings an old session cookie back
  (`app.ts:59`); a rejected `GET /csrf` on boot leaves the application unmounted.
* The pages: the close event of a replaced socket drops the handle of the new one
  (`clobbered` in `Stream`), which then goes on unseen; an older load answered
  last stays on screen until the next (`late`); the grants page sends the whole
  block and takes back what another admin saved meanwhile; the audit log keeps
  its spinner when the list of instances cannot be loaded.

`GrantHeld` says exactly how far the slots' authorisation goes: what a
non-admin does hits a server for which the grant was held at some time
*during* the request (a grant deleted between check and action is still
honoured), unless mcsm remounted the slot between look-up and action, which
`start` is immune to. While neither happens the grant is held when the action is carried out
(`GrantCurrent`), and for the proxy when the peer is dialled (`AdmittedAtOnce`).

## Proofs

TLAPS checks these for every value of the constants that the named assumptions
allow. `ConstantsAssumption`, `InstancesAssumption`, `SlotsAssumption`,
`SessionsAssumption`, `ProxyAssumption`, `BrowserAssumption`,
`StreamAssumption` and `PagesAssumption` say that sentinels are not members of
the pools, bounds are natural numbers, bodies, hits and pages are well formed,
bootstrap names are distinct. Each is evaluated by a run.

* **`AccountsProofs`**. `TypeCorrect` is inductive as it stands, `UniqueEmail`
  beside it because the insert re-checks. `References` and `InviteLedger` are
  not: `Rows` adds which ids the rows and invitations can name at all. `InviteOnly` and `NoSelfLoss` need
  `Progress`: what the steps of a handler still know (a signup past its first
  step carries an invitation; an admin's patch or deletion past its first step
  does not take the role from its own sender). `VerifiedByToken` needs `Tokens`, which ties each token's state to
  its account and to the signups still to write it. Four promises are proved
  under exclusions that are as small as they can be (`Apart`; with the overlap TLC
  refutes each): `Rights` says that whoever is past the check of a removal is still
  an enabled admin, `Founded` that the registry, once founded, has one; `Unused`
  and `Undone` that the invitation a signup or a withdrawal checked is still
  unused. Each needs only its own exclusion, and any other requests may overlap.
  Two refinements tie the endpoints to `Registry`, record by record: with no
  exclusion every request acts at one step or not at all (`RequestsActAtOnce`),
  under `Apart` its checks are true at that step too (`ChecksHoldApart`).
  What `Registry` itself is worth is proved without a look at a handler: the lax one
  has unique addresses and whole references (`LaxIsWhole`), the strict one is a lax
  one that always has an enabled admin (`StrictIsGoverned`).
* **`InstancesProofs`**. `Safe` = table well formed, jobs well formed, and
  `InFlight` (a job past its read holds a complete body or a real id). One
  primary and unique names then follow step by step; `PrimaryKept` is an action
  property from the same invariant. `ScansRecordOnce` adds that the peer a scan
  is about to record is unknown (`Unrecorded`) as long as nobody else writes its
  URL, and that requests run only after the bootstrap (`BootAlone`).
* **`FleetProofs`**. A fleet step is a step of `Instances` or leaves the table
  alone (`FleetKeepsTable`), so `Safe` carries over. `Reading` strengthens the
  rest: a call inside `sync` has a window that contains the current truth and
  the rows it read (`Window`); what it read and nobody invalidated is the
  current truth or an invalidation is still owed (`UpToDate`). From it follow
  `Coherent` and the refinement `KeepsPromise`: initial states map to initial
  states, installing rows is `Publish`, a table change is `Change`, a restart is
  `Forget`, everything else stutters.
* **`SlotsProofs`**. `Inv` says where a request can be (on the wire, carried
  out, at which step: `Where`), what it has filled in (`Filled`), and what
  authorises it (`Authorised`): until the check the history `held` includes all
  that is granted now, after the check it includes the capability asked for, and
  its slot still mounts the server it looked up unless it was remounted. `TypeOK`,
  `GrantHeld` and `AuditTruthful` follow. `SettledSeen` adds `Current`: a fetch
  that no invalidation overtook will bring everything that is settled. `GrantCurrent`
  shows that the exceptions of `GrantHeld` are all there are: for a request whose
  caller keeps the capability and whose slot nobody else remounts (`Undisturbed`),
  the grant is held for the server that is hit at the moment it is hit. `Valid`
  carries it: what the look-up found is still so (`InPlace`), what was checked is
  still granted (`Checked`).

* **`SessionsProofs`**. `Types` adds that whatever a request holds was handed out.
  `Gone` is what makes `EndedStays` inductive: a request that will save a user into
  a session (`Claims`) is alone with it, and the session never was that user's;
  every other write needs the row to be there still. `Proven` says that the
  password a request has proved is that of the last reset, `overtaken` aside; with
  it `OldCredentialsDie` is inductive. `LiveStays` is an action property from
  `Types`. The refinement `KeepsCredentials` maps a request to the proof it holds
  (`Held`) and a row to the session it opens (`Opens`); a row that a
  sign-up takes over ends for its first user. Reading, touching,
  expiring and the steps between two awaits stutter. `Claims` and `Proven` are what
  makes the rest of each handler, which does not look at the account again, the one
  step of the promise. `ResetEndsSessions` drops the exception of `OldCredentialsDie` for each
  account whose resets never overlap a request that holds proof of its older
  password: such an account is never `overtaken`.
* **`WsProxyProofs`**. `TypeOK` and `NoHalfOpen` are inductive, each event handler
  checked against the states it may find the other socket in. `Admitted` needs
  `Learnt`: each step of the handler knows facts that held at some time since the
  upgrade request (`ever`), and what `saw` says is among them. `AdmittedAtOnce` says
  when "at some time, each" is "now, all": while none of the caller's rights is taken
  away and the slot keeps its server (`Steady`), nothing that held is lost
  (`NothingLost`), so that the five reads are as good as one.
* **`BrowserProofs`**. `Single`: a browser never has two live sessions, because a
  sign-in needs a token that fits a live one and ends it. `Shows`: as long as the
  session of a tab's token lives (and was not taken over) the tab shows its owner
  or nobody, and no answer on its way says otherwise. `Good`: a primed token fits.
  `Booting` and `Ids` say what the answer to `GET /csrf` carries and that no id is
  held before it is handed out.
* **`PagesProofs`**. `Socketed`: only the socket of the handle lives, and lines come
  from it. `Truth`: a call that sends one key, or the edited ones, never takes anything
  back, so what was acknowledged is still there or something newer. `Ordered`: for every page
  that tells of failures, either the newest load in flight has not been overtaken
  and will bring the right subject with all acknowledged changes (`Newest`), or no
  load will and what is shown is right or excused (`Over`). `RightSubject` and
  `SeesOwnActs` are the case of no load in flight. A lemma says what removing a
  load from the sequence does to the others (`WithoutIs`). `NoRevert` follows from
  the same: a call writes numbers newer than all, and only to its keys.

**Liveness.** tlapm does not reason about `ENABLED`, so these theorems carry a
hypothesis in its place: `NeverStuck`, the enabling conditions of the fairness
written out (`pc[r] = ... => ENABLED <<...>>_vars`), which the runs `fleet`,
`slots_cache` and `ws_proxy` check as an invariant. From it, weak fairness and the
invariants above follow, stage by stage: `RequestsDecided` and `StreamsEndHolds`
(`Decided` and `StreamsEnd` of `WsProxy`), `RequestsEnd` (`Ends` of `Slots`), the
two halves of `CatchesUp` (`FetchesCatchUp`: no fetch keeps an old answer for
ever; `CacheCatchesUp`: then every key comes to show the action for good) and the
two halves of `Heals` (`OldCallsEnd`: every call that read the table before ends;
`ProbesHeal`: then one probe timer brings the fleet to the table's state for
good). `AnswersHeal` is the half of `PollHeals` that needs no fairness: once the data
and the subject rest, no call becomes stale (`StaysFresh`), and when none is stale
the next answer sets the page right for good.

Only model-checked: what joins those halves. "Each of finitely many fetches, calls
or bootstrap entries is over at last" gives "all are over at last" by induction
over a finite set of temporal formulas, which is out of this prover's reach; so
`CatchesUp`, `Heals` and `PollHeals` as a whole stay with TLC, and so do `NeverStuck`
and of course the violations.

## Assumptions about what is outside

* SQLite through one connection: a statement or `$transaction` is atomic, its
  unique indexes and foreign keys hold, and committed rows survive a crash.
* express-session: loads before the handler, and when the response ends touches
  an unchanged session and saves a changed one; `regenerate` destroys the old id.
* mcsm: carries out, refuses or loses an action; `start` needs an idle slot,
  everything else a mounted server; a federation answer holds at least what
  was carried out when it was asked for.

* `ws`: one socket goes connecting, open, closing, closed; `close` with a code that
  may not be sent throws; a socket that is closing is destroyed after 30 s.
* csrf-csrf: a token fits if it equals the cookie and was made for the id of the
  request's session; a good cookie is handed out again.

## Not modelled

* Mojang links (`mojang/api.ts`, `routes/me.ts`): check, remote look-up and create
  under two unique indexes; the race is that of `UniqueEmail`, its loser is
  answered 500.
* Wording, pagination, validation of fields nobody compares, rate limits
  (a library's counters), the logger, the mailer's transport, configuration,
  presentation components: no state that a property could be about.
* `lastSeenAt`, `lastError` (display only) and the bearer tokens of instances.
* Listings on the server (`GET /slots`, `GET /discovery`, `GET /grants`): they
  merge the answers whose age `SettledSeen` bounds. Their pages are in `Pages`.
* The admin guard of the router and the one-shot pages (verification, reset
  request and confirmation): a single call without further state.
* A database error while the process disconnects.

## Plan

Done: `Accounts` and `Registry`, `Instances`, `FleetPromise` and `Fleet`, `CredentialPromise` and `Sessions`, `Slots`
with the federation cache, `WsProxy` with the lifecycle, `Browser`, `Stream` and
`Pages`, each with its theorems.

Next, in this order:

1. The slot listing, composed from `Slots` and `Fleet`: grants read before the
   answers they filter, and the clearing of the federation cache by
   `invalidateFleet`.
2. `Links` composed with `Accounts`: the Mojang link beside unlink and the
   deletion of its user.
3. A larger instance of `browser` (three tabs, three sessions), as far as its
   states allow.
4. Proofs of the rest of `PollHeals`: that a stale call is answered or gives up
   at last, from the strong fairness of `Pages`.
