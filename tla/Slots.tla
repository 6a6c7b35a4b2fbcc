------------------------------- MODULE Slots -------------------------------
(***************************************************************************)
(* What users do to the slots of a mcsm: the lifecycle endpoints, the      *)
(* actions on the mounted server, the grants they are checked against, the *)
(* audit log and the federation cache they invalidate.                     *)
(*                                                                         *)
(* A request looks up what its slot mounts, checks the caller's grant for  *)
(* it, sends the action to the peer and waits for the answer: four steps   *)
(* between which other requests, and the peer itself, change everything.   *)
(* The peer may carry an action out long after the caller gave up on it.   *)
(* The model has one peer: grants and slots of different peers are apart.  *)
(***************************************************************************)
EXTENDS Naturals, FiniteSets

CONSTANTS
    Users,       \* who calls, and whom grants are given to
    Servers,     \* Minecraft servers of the peer
    Slots,       \* its slots
    Reqs,        \* pool of requests (each is made once)
    Fetches,     \* reads of the federation endpoints in flight at once
    Keys,        \* "discovery", "slots"
    Ops,         \* operations the clients call
    Permissions, \* permission blocks the admins send
    None, Seed   \* absent value; the rows that exist at the start

Caps == {"observe", "start", "stop", "restart", "command", "moderate", "admin", "invite"}

ASSUME SlotsAssumption ==
    /\ None \notin Users \cup Servers \cup Slots \cup Reqs /\ None # Seed /\ Seed \notin Reqs
    /\ Permissions \subseteq SUBSET Caps

VARIABLES
    rowId, can,       \* table server_grants
    gone,             \* users deleted so far
    pc, rq,           \* requests
    audited,          \* table audit_log: requests that left a row
    fed, fetch,       \* federation cache: the actions an answer reflects
    wire, mounted,    \* external: actions on their way to the peer; its slots
    taken,            \* history: requests that were carried out
    held,             \* history: what the caller was granted while asking
    moved,            \* history: requests whose slot was remounted under them
    settled, raced    \* history: actions whose invalidation is done; cache
                      \* entries requested before an invalidation, stored after

grantVars == <<rowId, can, gone>>
fedVars   == <<fed, fetch, settled, raced>>
peerVars  == <<wire, mounted, taken>>
reqVars   == <<pc, rq, held, moved>>
vars      == <<grantVars, reqVars, audited, fedVars, peerVars>>

Lifecycle == {"start", "stop", "restart"}
CommandOps == {"command"}
PlayerOps == {"moderate"}
AdminOps == {"op", "whitelist", "properties"}
BackupOps == {"backup", "update"}
ReadOps == {"observe", "detail"}
AdminReads == {"inspect"}
Reads == ReadOps \cup AdminReads
ServerOps == CommandOps \cup PlayerOps \cup AdminOps \cup BackupOps \cup {"observe", "inspect"}
GrantOps == {"put", "delete"}
Unaudited == Reads \cup {"refresh"}

CapOf(op) ==
    IF op \in ReadOps THEN "observe"
    ELSE IF op \in AdminOps \cup BackupOps \cup AdminReads THEN "admin" ELSE op

PCs == {"new", "look", "grant", "send", "wait", "find", "write", "audit", "done"}
Blank == [user |-> None, admin |-> FALSE, op |-> None, slot |-> None, server |-> None,
          row |-> None, perms |-> {}]

Granted(u) == {g \in Servers \X Caps : g[2] \in can[<<u, g[1]>>]}

Init ==
    /\ can \in [Users \X Servers -> {p \cup {"observe"} : p \in Permissions} \cup {{}}]
    /\ rowId = [g \in Users \X Servers |-> IF can[g] = {} THEN None ELSE Seed]
    /\ gone = {}
    /\ pc = [r \in Reqs |-> "new"] /\ rq = [r \in Reqs |-> Blank]
    /\ audited = {}
    /\ fed = [k \in Keys |-> None] /\ fetch = [f \in Fetches |-> None]
    /\ mounted \in [Slots -> Servers \cup {None}]
    /\ wire = {} /\ taken = {} /\ moved = {}
    /\ held = [r \in Reqs |-> {}] /\ settled = {} /\ raced = {}

Goto(r, step) == pc' = [pc EXCEPT ![r] = step] /\ UNCHANGED <<rq, held, moved>>

\* What a request knew goes with it, unless its action is still on the wire.
Forget(R) ==
    /\ rq' = [r \in Reqs |-> IF r \in R THEN Blank ELSE rq[r]]
    /\ held' = [r \in Reqs |-> IF r \in R THEN {} ELSE held[r]]
Done(r) ==
    /\ pc' = [pc EXCEPT ![r] = "done"]
    /\ Forget({r} \ wire) /\ moved' = moved \ ({r} \ wire)
Fail(r) == Done(r) /\ UNCHANGED <<grantVars, audited, fedVars, peerVars>>

Begin(r, step, q) ==
    /\ pc[r] = "new" /\ q.op \in Ops
    /\ pc' = [pc EXCEPT ![r] = step]
    /\ rq' = [rq EXCEPT ![r] = q]
    /\ held' = [held EXCEPT ![r] = IF q.op \in GrantOps THEN {} ELSE Granted(q.user)]
    /\ UNCHANGED <<moved, grantVars, audited, fedVars, peerVars>>

-----------------------------------------------------------------------------
(* Slot endpoints.  isAdmin is what loadCurrentUser read. *)

\* stop, restart, slot detail and everything under /server ask what is mounted.
BeginMounted(r, u, isAdmin, op, slot) ==
    /\ u \notin gone
    /\ op \in {"stop", "restart", "detail"} \cup ServerOps
    /\ Begin(r, "look", [Blank EXCEPT !.user = u, !.admin = isAdmin, !.op = op, !.slot = slot])

\* start is told which server.
BeginStart(r, u, isAdmin, slot, s) ==
    /\ u \notin gone
    /\ Begin(r, "grant", [Blank EXCEPT !.user = u, !.admin = isAdmin, !.op = "start",
                                       !.slot = slot, !.server = s])

\* POST /discovery/:instanceId/refresh asks for a session only.
BeginRefresh(r, u) ==
    /\ u \notin gone
    /\ Begin(r, "send", [Blank EXCEPT !.user = u, !.op = "refresh"])

Look(r) ==
    /\ pc[r] = "look"
    /\ mounted[rq[r].slot] # None
    /\ rq' = [rq EXCEPT ![r].server = mounted[rq[r].slot]]
    /\ pc' = [pc EXCEPT ![r] = "grant"]
    /\ UNCHANGED <<grantVars, audited, fedVars, peerVars, held, moved>>

\* Nothing is mounted, the peer is unknown, unreachable or late.
LookFail(r) == pc[r] = "look" /\ Fail(r)

Anyone(r) == TRUE                                              \* mutant
HasGrant(r) == CapOf(rq[r].op) \in can[<<rq[r].user, rq[r].server>>]
MayDo(r) == rq[r].admin \/ HasGrant(r)

AssertGrant(r) ==
    /\ pc[r] = "grant" /\ rq[r].op # "detail"
    /\ IF MayDo(r) THEN Goto(r, "send") ELSE Done(r)
    /\ UNCHANGED <<grantVars, audited, fedVars, peerVars>>

\* The slot's detail was read before the grant is checked.
ShowDetail(r) ==
    /\ pc[r] = "grant" /\ rq[r].op = "detail"
    /\ taken' = IF MayDo(r) THEN taken \cup {r} ELSE taken
    /\ Done(r)
    /\ UNCHANGED <<grantVars, audited, fedVars, wire, mounted>>

Send(r) ==
    /\ pc[r] = "send"
    /\ wire' = wire \cup {r}
    /\ Goto(r, "wait")
    /\ UNCHANGED <<grantVars, audited, fedVars, mounted, taken>>

\* The body does not parse, or the peer is gone from the fleet.
SendFail(r) == pc[r] = "send" /\ Fail(r)

ForgetNothing(r) == settled' = settled \cup {r} /\ UNCHANGED <<fed, fetch, raced>>  \* mutant
\* invalidateFederationCache: fedCache.clear().
Invalidate(r) ==
    /\ fed' = [k \in Keys |-> None]
    /\ fetch' = [f \in Fetches |-> IF fetch[f] = None THEN None
                                   ELSE [fetch[f] EXCEPT !.late = fetch[f].asked]]
    /\ raced' = {}
    /\ settled' = settled \cup {r}

Answer(r) ==
    /\ pc[r] = "wait" /\ r \in taken
    /\ IF rq[r].op \in Lifecycle \cup {"refresh"} THEN Invalidate(r) ELSE UNCHANGED fedVars
    /\ IF rq[r].op \in Unaudited THEN Done(r) ELSE Goto(r, "audit")
    /\ UNCHANGED <<grantVars, audited, peerVars>>

NoAnswer(r) == FALSE                                           \* mutant
\* The peer refused, the answer was lost, or 10 s went by.
GivesUp(r) == pc[r] = "wait"
AuditAnyway(r) ==                                              \* mutant
    GivesUp(r) /\ Goto(r, "audit") /\ UNCHANGED <<grantVars, audited, fedVars, peerVars>>
AnswerFail(r) == GivesUp(r) /\ Fail(r)

\* The row is written, or its failure is swallowed.
Audit(r) ==
    /\ pc[r] = "audit"
    /\ audited' \in {audited, audited \cup {r}}
    /\ Done(r)
    /\ UNCHANGED <<grantVars, fedVars, peerVars>>

-----------------------------------------------------------------------------
(* PUT /grants, DELETE /grants/:id, and what cascades into the table *)

BeginPut(r, u, s, perms) ==
    Begin(r, "write", [Blank EXCEPT !.user = u, !.server = s, !.op = "put", !.perms = perms])

BeginDelete(r, u, s) ==
    /\ rowId[<<u, s>>] # None
    /\ Begin(r, "find", [Blank EXCEPT !.user = u, !.server = s, !.op = "delete",
                                      !.row = rowId[<<u, s>>]])

Target(r) == <<rq[r].user, rq[r].server>>
RowFound(r) == rowId[Target(r)] = rq[r].row

DeleteFind(r) ==
    /\ pc[r] = "find"
    /\ IF RowFound(r) THEN Goto(r, "write") ELSE Done(r)
    /\ UNCHANGED <<grantVars, audited, fedVars, peerVars>>

\* userId is a foreign key.
AnyUser(u) == TRUE                                             \* mutant
Referable(u) == u \notin gone

PutWrite(r) ==
    /\ pc[r] = "write" /\ rq[r].op = "put" /\ Referable(rq[r].user)
    /\ rowId' = [rowId EXCEPT ![Target(r)] = IF @ = None THEN r ELSE @]
    /\ can' = [can EXCEPT ![Target(r)] = rq[r].perms \cup {"observe"}]
    /\ held' = [q \in Reqs |-> IF pc[q] \notin {"new", "done"} /\ rq[q].user = rq[r].user
                               THEN held[q] \cup {<<rq[r].server, c>> : c \in can'[Target(r)]}
                               ELSE held[q]]
    /\ taken' = taken \cup {r}
    /\ pc' = [pc EXCEPT ![r] = "audit"]
    /\ UNCHANGED <<gone, rq, moved, audited, fedVars, wire, mounted>>

DeleteWrite(r) ==
    /\ pc[r] = "write" /\ rq[r].op = "delete" /\ RowFound(r)
    /\ rowId' = [rowId EXCEPT ![Target(r)] = None]
    /\ can' = [can EXCEPT ![Target(r)] = {}]
    /\ taken' = taken \cup {r}
    /\ Goto(r, "audit")
    /\ UNCHANGED <<gone, audited, fedVars, wire, mounted>>

WriteFail(r) ==
    /\ pc[r] = "write"
    /\ IF rq[r].op = "put" THEN ~ Referable(rq[r].user) ELSE ~ RowFound(r)
    /\ Fail(r)

\* DELETE /admin/users/:id cascades.
UserDelete(u) ==
    /\ u \notin gone /\ gone' = gone \cup {u}
    /\ rowId' = [g \in Users \X Servers |-> IF g[1] = u THEN None ELSE rowId[g]]
    /\ can' = [g \in Users \X Servers |-> IF g[1] = u THEN {} ELSE can[g]]
    /\ UNCHANGED <<reqVars, audited, fedVars, peerVars>>

-----------------------------------------------------------------------------
(* The federation cache: cachedFederation(key, ...) *)

\* A hit is not a step.  A miss awaits getPrimary first.
FedMiss(f, k) ==
    /\ fetch[f] = None /\ fed[k] = None
    /\ fetch' = [fetch EXCEPT ![f] = [key |-> k, asked |-> FALSE, seen |-> {}, late |-> FALSE]]
    /\ UNCHANGED <<grantVars, reqVars, audited, fed, settled, raced, peerVars>>

FedAsk(f) ==
    /\ fetch[f] # None /\ ~ fetch[f].asked
    /\ fetch' = [fetch EXCEPT ![f].asked = TRUE, ![f].seen = taken]
    /\ UNCHANGED <<grantVars, reqVars, audited, fed, settled, raced, peerVars>>

\* The primary asked its peers at some time since; what it says need not hold the
\* latest actions.
FedStore(f) ==
    /\ fetch[f] # None /\ fetch[f].asked
    /\ \E seen \in SUBSET taken :
          fetch[f].seen \subseteq seen /\ fed' = [fed EXCEPT ![fetch[f].key] = seen]
    /\ raced' = IF fetch[f].late THEN raced \cup {fetch[f].key} ELSE raced \ {fetch[f].key}
    /\ fetch' = [fetch EXCEPT ![f] = None]
    /\ UNCHANGED <<grantVars, reqVars, audited, settled, peerVars>>

\* No primary, no answer, or an error status.
FedFail(f) ==
    /\ fetch[f] # None
    /\ fetch' = [fetch EXCEPT ![f] = None]
    /\ UNCHANGED <<grantVars, reqVars, audited, fed, settled, raced, peerVars>>

NeverExpires(k) == FALSE                                       \* mutant
\* FED_TTL_MS has passed.
FedExpire(k) ==
    /\ fed[k] # None
    /\ fed' = [fed EXCEPT ![k] = None] /\ raced' = raced \ {k}
    /\ UNCHANGED <<grantVars, reqVars, audited, fetch, settled, peerVars>>

-----------------------------------------------------------------------------
(* The peer (external), and a restart of this process *)

\* Requests that have asked what the slot mounts, and whose slot now changes.
Stirred ==
    {r \in Reqs : /\ pc[r] \in {"grant", "send"} \/ r \in wire
                  /\ rq[r].slot # None /\ mounted'[rq[r].slot] # mounted[rq[r].slot]}

\* start needs an idle slot, everything else a mounted server.
Accepts(r) == rq[r].op # "refresh" => (rq[r].op = "start" <=> mounted[rq[r].slot] = None)

OffWire(r) == wire' = wire \ {r} /\ Forget({r} \cap {q \in Reqs : pc[q] = "done"})

Take(r) ==
    /\ r \in wire /\ Accepts(r)
    /\ taken' = taken \cup {r}
    /\ mounted' = CASE rq[r].op = "start" -> [mounted EXCEPT ![rq[r].slot] = rq[r].server]
                    [] rq[r].op = "stop" -> [mounted EXCEPT ![rq[r].slot] = None]
                    [] OTHER -> mounted
    /\ moved' = (moved \cup Stirred) \ {r}
    /\ OffWire(r)
    /\ UNCHANGED <<grantVars, pc, audited, fedVars>>

\* The peer refuses, or never gets it.
Drop(r) ==
    /\ r \in wire /\ OffWire(r)
    /\ moved' = moved \ {r}
    /\ UNCHANGED <<grantVars, pc, audited, fedVars, mounted, taken>>

\* A crash, or somebody who uses the peer directly.
PeerChange(slot, s) ==
    /\ s # mounted[slot] /\ mounted' = [mounted EXCEPT ![slot] = s]
    /\ moved' = moved \cup Stirred
    /\ UNCHANGED <<grantVars, pc, rq, held, audited, fedVars, wire, taken>>

Restart ==
    /\ pc' = [r \in Reqs |-> IF pc[r] = "new" THEN "new" ELSE "done"]
    /\ Forget(Reqs \ wire) /\ moved' = moved \cap wire
    /\ fed' = [k \in Keys |-> None] /\ fetch' = [f \in Fetches |-> None] /\ raced' = {}
    /\ UNCHANGED <<grantVars, audited, settled, peerVars>>

-----------------------------------------------------------------------------
Arrive(r) ==
    \/ \E u \in Users, isAdmin \in BOOLEAN, slot \in Slots :
          \/ \E op \in Ops : BeginMounted(r, u, isAdmin, op, slot)
          \/ \E s \in Servers : BeginStart(r, u, isAdmin, slot, s)
    \/ \E u \in Users : BeginRefresh(r, u)
    \/ \E u \in Users, s \in Servers :
          BeginDelete(r, u, s) \/ \E perms \in Permissions : BeginPut(r, u, s, perms)

Handle(r) ==
    \/ Look(r) \/ LookFail(r) \/ AssertGrant(r) \/ ShowDetail(r) \/ Send(r) \/ SendFail(r)
    \/ Answer(r) \/ AnswerFail(r) \/ Audit(r)
    \/ DeleteFind(r) \/ PutWrite(r) \/ DeleteWrite(r) \/ WriteFail(r)

Next ==
    \/ \E r \in Reqs : Arrive(r) \/ Handle(r) \/ Take(r) \/ Drop(r)
    \/ \E u \in Users : UserDelete(u)
    \/ \E f \in Fetches : FedAsk(f) \/ FedStore(f) \/ FedFail(f) \/ \E k \in Keys : FedMiss(f, k)
    \/ \E k \in Keys : FedExpire(k)
    \/ \E slot \in Slots, s \in Servers \cup {None} : PeerChange(slot, s)
    \/ Restart

Spec == Init /\ [][Next]_vars

\* Every handler and every fetch runs on: the database answers, and a peer that does
\* not is given up on.  Time passes.
Fetching(f) == FedAsk(f) \/ FedStore(f) \/ FedFail(f)
HandlerFair(r) == WF_vars(Handle(r))
FetchFair(f) == WF_vars(Fetching(f))
TimeFair(k) == WF_vars(FedExpire(k))
Fairness == /\ \A r \in Reqs : HandlerFair(r)
            /\ \A f \in Fetches : FetchFair(f)
            /\ \A k \in Keys : TimeFair(k)
FairSpec == Spec /\ Fairness

-----------------------------------------------------------------------------
TypeOK ==
    /\ can \in [Users \X Servers -> SUBSET Caps]
    /\ rowId \in [Users \X Servers -> Reqs \cup {None, Seed}]
    /\ gone \subseteq Users
    /\ \A g \in Users \X Servers : /\ rowId[g] = None <=> can[g] = {}
                                   /\ rowId[g] # None => g[1] \notin gone
    /\ pc \in [Reqs -> PCs] /\ audited \subseteq Reqs
    /\ mounted \in [Slots -> Servers \cup {None}]
    /\ wire \subseteq Reqs /\ taken \subseteq Reqs \ wire
    /\ \A f \in Fetches : fetch[f] # None => fetch[f].seen \subseteq taken
    /\ \A k \in Keys : fed[k] # None => fed[k] \subseteq taken

\* README.md:113: what a non-admin's request does or shows concerns a server for
\* which the caller held the capability while the request ran, whatever grants
\* changed meanwhile.  Only a slot that was remounted after the look-up can put
\* another server in its place, and never for start, which names the server.
Hits(r) == IF rq[r].op \in {"start", "detail"} THEN rq[r].server ELSE mounted[rq[r].slot]
GrantHeld ==
    [][\A r \in taken' \ taken :
          \/ rq[r].admin \/ rq[r].op \in GrantOps \cup {"refresh"}
          \/ <<Hits(r), CapOf(rq[r].op)>> \in held[r]
          \/ rq[r].op # "start" /\ r \in moved]_vars

\* An audit row tells the truth: its action was carried out, also when answers
\* are lost, the peer is late or grants are deleted under the request.
AuditTruthful == audited \subseteq taken

\* fleet.ts:73: a cached federation answer reflects every lifecycle action whose
\* invalidation is done, but for answers that an invalidation overtook.
SettledSeen == \A k \in Keys \ raced : fed[k] # None => settled \subseteq fed[k]

\* fleet.ts:75: what an invalidation missed, the time to live mends: from some
\* moment on no cached answer lacks an action whose invalidation is done.
CatchesUp ==
    \A r \in Reqs : r \in settled ~> [](\A k \in Keys : fed[k] # None => r \in fed[k])

\* What is expected to go on can: a request that is being handled has a way on
\* whatever the peer, the slots and the tables do (slots.ts, actions.ts), a
\* fetch can end and what it stored expire.
NeverStuck ==
    /\ \A r \in Reqs : pc[r] \notin {"new", "done"} => ENABLED <<Handle(r)>>_vars
    /\ \A f \in Fetches : fetch[f] # None => ENABLED <<Fetching(f)>>_vars
    /\ \A k \in Keys : fed[k] # None => ENABLED <<FedExpire(k)>>_vars

\* A peer that never answers holds no request for ever.
Ends == \A r \in Reqs : pc[r] # "new" ~> pc[r] = "done"
=============================================================================
