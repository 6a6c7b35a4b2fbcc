---------------------------- MODULE SlotsProofs ----------------------------
(***************************************************************************)
(* Proofs about Slots, for every number of users, servers, slots, requests *)
(* and fetches, every set of operations and every permission block.        *)
(***************************************************************************)
EXTENDS Slots, TLAPS

Requests == [user : Users \cup {None}, admin : BOOLEAN, op : Ops \cup {None},
             slot : Slots \cup {None}, server : Servers \cup {None},
             row : Reqs \cup {None, Seed}, perms : SUBSET Caps]

\* The requests, well typed; which of them can be where.
Typed ==
    /\ pc \in [Reqs -> PCs] /\ rq \in [Reqs -> Requests]
    /\ held \in [Reqs -> SUBSET (Servers \X Caps)] /\ moved \subseteq Reqs
    /\ wire \subseteq Reqs /\ taken \subseteq Reqs /\ audited \subseteq Reqs

Where ==
    \A r \in Reqs :
        /\ r \in wire => r \notin taken /\ pc[r] \in {"wait", "done"}
        /\ r \in taken => pc[r] \in {"wait", "audit", "done"}
        /\ pc[r] = "audit" => r \in taken
        /\ r \in audited => r \in taken

\* On its way to the peer, or about to be.
Bound(r) == pc[r] \in {"grant", "send"} \/ r \in wire

\* What a request has filled in at each of its steps.
Filled ==
    \A r \in Reqs :
        /\ pc[r] \in {"find", "write"} =>
               rq[r].user \in Users /\ rq[r].server \in Servers /\ rq[r].op \in GrantOps
        /\ pc[r] = "look" =>
               /\ rq[r].user \in Users /\ rq[r].slot \in Slots
               /\ rq[r].op \notin GrantOps \cup {"start", "refresh"}
        /\ Bound(r) => rq[r].op \notin GrantOps
        /\ pc[r] = "grant" => rq[r].op # "refresh"
        /\ Bound(r) /\ rq[r].op # "refresh" =>
               rq[r].user \in Users /\ rq[r].slot \in Slots /\ rq[r].server \in Servers

\* What authorises it: until the check, held includes all that is granted now;
\* after the check, the capability that was asked for.
Authorised ==
    \A r \in Reqs :
        /\ pc[r] \in {"look", "grant"} => Granted(rq[r].user) \subseteq held[r]
        /\ pc[r] = "send" \/ r \in wire =>
               \/ rq[r].admin \/ rq[r].op = "refresh"
               \/ <<rq[r].server, CapOf(rq[r].op)>> \in held[r]
        /\ Bound(r) /\ rq[r].op \notin {"start", "refresh"} =>
               r \in moved \/ mounted[rq[r].slot] = rq[r].server

Tables ==
    /\ can \in [Users \X Servers -> SUBSET Caps]
    /\ rowId \in [Users \X Servers -> Reqs \cup {None, Seed}]
    /\ gone \subseteq Users
    /\ \A g \in Users \X Servers : /\ rowId[g] = None <=> can[g] = {}
                                   /\ rowId[g] # None => g[1] \notin gone
    /\ mounted \in [Slots -> Servers \cup {None}]

Cache ==
    /\ fetch \in [Fetches -> [key : Keys, asked : BOOLEAN, seen : SUBSET Reqs,
                              late : BOOLEAN] \cup {None}]
    /\ fed \in [Keys -> (SUBSET Reqs) \cup {None}]
    /\ settled \subseteq taken
    /\ \A f \in Fetches : fetch[f] # None => fetch[f].seen \subseteq taken
    /\ \A k \in Keys : fed[k] # None => fed[k] \subseteq taken

\* A fetch asked after the last invalidation will bring all that is settled.
Current ==
    /\ SettledSeen
    /\ \A f \in Fetches : fetch[f] # None /\ fetch[f].asked /\ ~ fetch[f].late =>
                              settled \subseteq fetch[f].seen

Inv == Typed /\ Where /\ Filled /\ Authorised /\ Tables

-----------------------------------------------------------------------------
LEMMA BlankType == Blank \in Requests
  BY DEF Blank, Requests

LEMMA ForgetType ==
  ASSUME Typed, NEW R, Forget(R)
  PROVE  /\ rq' \in [Reqs -> Requests] /\ held' \in [Reqs -> SUBSET (Servers \X Caps)]
         /\ \A r \in Reqs \ R : rq'[r] = rq[r] /\ held'[r] = held[r]
  BY BlankType DEF Forget, Typed

\* A request that ends is forgotten but for its action on the wire.
LEMMA DoneStep ==
  ASSUME Inv, NEW r \in Reqs, pc[r] # "new", Done(r),
         taken' = taken \/ (taken' = taken \cup {r} /\ pc[r] = "grant"),
         audited' = audited \/ (audited' = audited \cup {r} /\ r \in taken),
         UNCHANGED <<can, rowId, gone, mounted, wire>>
  PROVE  Inv'
<1>1. Typed'
  BY ForgetType DEF Inv, Typed, Done, PCs
<1>2. \A q \in Reqs : q # r \/ r \in wire => /\ rq'[q] = rq[q] /\ held'[q] = held[q]
                                             /\ q \in moved' <=> q \in moved
  BY ForgetType DEF Inv, Done
<1>3. \A q \in Reqs : pc'[q] = IF q = r THEN "done" ELSE pc[q]
  BY DEF Inv, Typed, Done
<1>4. Where'
  BY <1>3 DEF Inv, Where
<1>5. Filled'
  BY <1>2, <1>3 DEF Inv, Filled, Bound
<1>6. Authorised'
  BY <1>2, <1>3 DEF Inv, Authorised, Bound, Granted
<1>7. Tables'
  BY DEF Inv, Tables
<1> QED
  BY <1>1, <1>4, <1>5, <1>6, <1>7 DEF Inv

LEMMA FailStep == ASSUME Inv, NEW r \in Reqs, pc[r] # "new", Fail(r) PROVE Inv'
  BY DoneStep DEF Fail, grantVars, peerVars

\* A request starts, with what its step needs filled in.
LEMMA BeginStep ==
  ASSUME Inv, NEW r \in Reqs, NEW q \in Requests, NEW step \in {"look", "grant", "send", "find", "write"},
         Begin(r, step, q),
         q.user \in Users,
         step \in {"find", "write"} => q.server \in Servers /\ q.op \in GrantOps,
         step \in {"look", "grant", "send"} => q.op \notin GrantOps,
         step = "look" => q.slot \in Slots /\ q.op \notin {"start", "refresh"},
         step = "grant" => q.slot \in Slots /\ q.server \in Servers /\ q.op = "start",
         step = "send" => q.op = "refresh"
  PROVE  Inv'
<1>1. Granted(q.user) \in SUBSET (Servers \X Caps)
  BY DEF Granted
<1>2. Typed'
  BY <1>1 DEF Inv, Typed, Begin, PCs, grantVars, fedVars, peerVars
<1>3. /\ \A p \in Reqs \ {r} : pc'[p] = pc[p] /\ rq'[p] = rq[p] /\ held'[p] = held[p]
      /\ pc[r] = "new" /\ pc'[r] = step /\ rq'[r] = q
      /\ q.op \notin GrantOps => held'[r] = Granted(q.user)
      /\ UNCHANGED <<can, rowId, gone, mounted, wire, taken, audited, moved>>
  BY DEF Inv, Typed, Begin, grantVars, fedVars, peerVars
<1>4. Where'
  BY <1>3 DEF Inv, Where
<1>5. Filled'
  BY <1>3 DEF Inv, Filled, Bound, Where
<1>6. Authorised'
  <2>1. ASSUME NEW p \in Reqs \ {r} PROVE Authorised!(p)'
    BY <1>3, <2>1 DEF Inv, Authorised, Bound, Granted
  <2>2. Authorised!(r)'
    BY <1>3 DEF Inv, Authorised, Bound, Granted, Where
  <2> QED
    BY <2>1, <2>2 DEF Authorised
<1>7. Tables'
  BY <1>3 DEF Inv, Tables
<1> QED
  BY <1>2, <1>4, <1>5, <1>6, <1>7 DEF Inv

LEMMA ArriveStep == ASSUME Inv, NEW r \in Reqs, Arrive(r) PROVE Inv'
<1>1. ASSUME NEW u \in Users, NEW isAdmin \in BOOLEAN, NEW op \in Ops, NEW slot \in Slots,
             BeginMounted(r, u, isAdmin, op, slot)
      PROVE  Inv'
  <2> DEFINE q == [Blank EXCEPT !.user = u, !.admin = isAdmin, !.op = op, !.slot = slot]
  <2>1. q \in Requests /\ q.user = u /\ q.op = op /\ q.slot = slot
    BY DEF Blank, Requests
  <2>2. op \notin GrantOps \cup {"start", "refresh"}
    BY <1>1 DEF BeginMounted, ServerOps, GrantOps, CommandOps, PlayerOps, AdminOps, BackupOps
  <2> QED
    BY <1>1, <2>1, <2>2, BeginStep DEF BeginMounted
<1>2. ASSUME NEW u \in Users, NEW isAdmin \in BOOLEAN, NEW slot \in Slots, NEW s \in Servers,
             BeginStart(r, u, isAdmin, slot, s)
      PROVE  Inv'
  <2> DEFINE q == [Blank EXCEPT !.user = u, !.admin = isAdmin, !.op = "start",
                                !.slot = slot, !.server = s]
  <2>0. Begin(r, "grant", q)
    BY <1>2 DEF BeginStart
  <2>1. q \in Requests /\ q.user = u /\ q.op = "start" /\ q.slot = slot /\ q.server = s
    BY <2>0 DEF Blank, Requests, Begin
  <2> QED
    BY <2>0, <2>1, BeginStep DEF GrantOps
<1>3. ASSUME NEW u \in Users, BeginRefresh(r, u) PROVE Inv'
  <2> DEFINE q == [Blank EXCEPT !.user = u, !.op = "refresh"]
  <2>0. Begin(r, "send", q)
    BY <1>3 DEF BeginRefresh
  <2>1. q \in Requests /\ q.user = u /\ q.op = "refresh"
    BY <2>0 DEF Blank, Requests, Begin
  <2> QED
    BY <2>0, <2>1, BeginStep DEF GrantOps
<1>4. ASSUME NEW u \in Users, NEW s \in Servers, NEW perms \in Permissions,
             BeginPut(r, u, s, perms)
      PROVE  Inv'
  <2> DEFINE q == [Blank EXCEPT !.user = u, !.server = s, !.op = "put", !.perms = perms]
  <2>0. Begin(r, "write", q)
    BY <1>4 DEF BeginPut
  <2>1. q \in Requests /\ q.user = u /\ q.op = "put" /\ q.server = s
    BY <2>0, SlotsAssumption DEF Blank, Requests, Begin
  <2> QED
    BY <2>0, <2>1, BeginStep DEF GrantOps
<1>5. ASSUME NEW u \in Users, NEW s \in Servers, BeginDelete(r, u, s) PROVE Inv'
  <2> DEFINE q == [Blank EXCEPT !.user = u, !.server = s, !.op = "delete", !.row = rowId[<<u, s>>]]
  <2>0. Begin(r, "find", q)
    BY <1>5 DEF BeginDelete
  <2>1. rowId[<<u, s>>] \in Reqs \cup {None, Seed}
    BY DEF Inv, Tables
  <2>2. q \in Requests /\ q.user = u /\ q.op = "delete" /\ q.server = s
    BY <2>0, <2>1 DEF Blank, Requests, Begin
  <2> QED
    BY <2>0, <2>2, BeginStep DEF GrantOps
<1> QED
  BY <1>1, <1>2, <1>3, <1>4, <1>5 DEF Arrive

-----------------------------------------------------------------------------
LEMMA LookStep == ASSUME Inv, NEW r \in Reqs, Look(r) PROVE Inv'
<1>1. /\ \A p \in Reqs \ {r} : pc'[p] = pc[p] /\ rq'[p] = rq[p]
      /\ pc[r] = "look" /\ pc'[r] = "grant"
      /\ rq'[r] = [rq[r] EXCEPT !.server = mounted[rq[r].slot]]
      /\ UNCHANGED <<can, rowId, gone, mounted, wire, taken, audited, held, moved>>
  BY DEF Inv, Typed, Look, grantVars, fedVars, peerVars
<1>2. rq[r] \in Requests /\ rq[r].slot \in Slots /\ mounted[rq[r].slot] \in Servers
  BY DEF Inv, Typed, Filled, Tables, Look
<1>3. rq'[r] \in Requests /\ rq'[r].server = mounted[rq[r].slot]
      /\ rq'[r].user = rq[r].user /\ rq'[r].slot = rq[r].slot /\ rq'[r].op = rq[r].op
  BY <1>1, <1>2 DEF Requests
<1>4. Typed'
  BY <1>3 DEF Inv, Typed, Look, PCs, grantVars, fedVars, peerVars
<1>5. Where'
  BY <1>1 DEF Inv, Where
<1>6. Filled'
  BY <1>1, <1>2, <1>3 DEF Inv, Filled, Bound, Where
<1>7. Authorised'
  <2>1. ASSUME NEW p \in Reqs \ {r} PROVE Authorised!(p)'
    BY <1>1, <2>1 DEF Inv, Authorised, Bound, Granted
  <2>2. Authorised!(r)'
    BY <1>1, <1>3 DEF Inv, Authorised, Bound, Granted, Where
  <2> QED
    BY <2>1, <2>2 DEF Authorised
<1>8. Tables'
  BY <1>1 DEF Inv, Tables
<1> QED
  BY <1>4, <1>5, <1>6, <1>7, <1>8 DEF Inv

\* What a request that goes on leaves alone.
LEMMA GotoKeeps ==
  ASSUME Inv, NEW r \in Reqs, NEW step \in PCs, Goto(r, step)
  PROVE  /\ pc' \in [Reqs -> PCs] /\ pc'[r] = step
         /\ \A p \in Reqs \ {r} : pc'[p] = pc[p]
         /\ UNCHANGED <<rq, held, moved>>
  BY DEF Goto, Inv, Typed

\* The check finds in the table what held recorded.
LEMMA CheckedGrant ==
  ASSUME Inv, NEW r \in Reqs, pc[r] = "grant", MayDo(r)
  PROVE  rq[r].admin \/ <<rq[r].server, CapOf(rq[r].op)>> \in held[r]
<1>1. CASE HasGrant(r)
  <2>1. rq[r].user \in Users /\ rq[r].server \in Servers
    BY DEF Inv, Filled, Bound
  <2>2. <<rq[r].server, CapOf(rq[r].op)>> \in Granted(rq[r].user)
    BY <1>1, <2>1 DEF HasGrant, Granted, Inv, Tables
  <2> QED
    BY <2>2 DEF Inv, Authorised
<1> QED
  BY <1>1 DEF MayDo

LEMMA AssertGrantStep == ASSUME Inv, NEW r \in Reqs, AssertGrant(r) PROVE Inv'
<1>1. CASE ~ MayDo(r)
  BY <1>1, DoneStep DEF AssertGrant, grantVars, peerVars
<1>2. CASE MayDo(r)
  <2>1. /\ pc[r] = "grant" /\ Goto(r, "send")
        /\ UNCHANGED <<can, rowId, gone, mounted, wire, taken, audited>>
    BY <1>2 DEF AssertGrant, grantVars, peerVars
  <2>2. /\ pc' \in [Reqs -> PCs] /\ pc'[r] = "send" /\ \A p \in Reqs \ {r} : pc'[p] = pc[p]
        /\ UNCHANGED <<rq, held, moved>>
    BY <2>1, GotoKeeps DEF PCs
  <2>3. Typed'
    BY <2>1, <2>2 DEF Inv, Typed
  <2>4. Where'
    BY <2>1, <2>2 DEF Inv, Where
  <2>5. Filled'
    BY <2>1, <2>2 DEF Inv, Filled, Bound
  <2>6. Authorised'
    BY <1>2, <2>1, <2>2, CheckedGrant DEF Inv, Authorised, Bound, Granted
  <2>7. Tables'
    BY <2>1 DEF Inv, Tables
  <2> QED
    BY <2>3, <2>4, <2>5, <2>6, <2>7 DEF Inv
<1> QED
  BY <1>1, <1>2

LEMMA ShowDetailStep == ASSUME Inv, NEW r \in Reqs, ShowDetail(r) PROVE Inv'
  BY DoneStep DEF ShowDetail, grantVars

LEMMA SendStep == ASSUME Inv, NEW r \in Reqs, Send(r) PROVE Inv'
<1>1. /\ pc[r] = "send" /\ Goto(r, "wait") /\ wire' = wire \cup {r}
      /\ UNCHANGED <<can, rowId, gone, mounted, taken, audited>>
  BY DEF Send, grantVars
<1>2. /\ pc' \in [Reqs -> PCs] /\ pc'[r] = "wait" /\ \A p \in Reqs \ {r} : pc'[p] = pc[p]
      /\ UNCHANGED <<rq, held, moved>>
  BY <1>1, GotoKeeps DEF PCs
<1>3. Typed'
  BY <1>1, <1>2 DEF Inv, Typed
<1>4. Where'
  BY <1>1, <1>2 DEF Inv, Where
<1>5. Filled'
  BY <1>1, <1>2 DEF Inv, Filled, Bound
<1>6. Authorised'
  BY <1>1, <1>2 DEF Inv, Authorised, Bound, Granted
<1>7. Tables'
  BY <1>1 DEF Inv, Tables
<1> QED
  BY <1>3, <1>4, <1>5, <1>6, <1>7 DEF Inv

LEMMA AnswerStep == ASSUME Inv, NEW r \in Reqs, Answer(r) PROVE Inv'
<1>1. CASE rq[r].op \in Unaudited
  BY <1>1, DoneStep DEF Answer, grantVars, peerVars
<1>2. CASE rq[r].op \notin Unaudited
  <2>1. /\ pc[r] = "wait" /\ r \in taken /\ Goto(r, "audit")
        /\ UNCHANGED <<can, rowId, gone, mounted, wire, taken, audited>>
    BY <1>2 DEF Answer, grantVars, peerVars
  <2>2. /\ pc' \in [Reqs -> PCs] /\ pc'[r] = "audit" /\ \A p \in Reqs \ {r} : pc'[p] = pc[p]
        /\ UNCHANGED <<rq, held, moved>>
    BY <2>1, GotoKeeps DEF PCs
  <2>3. Typed'
    BY <2>1, <2>2 DEF Inv, Typed
  <2>4. Where'
    BY <2>1, <2>2 DEF Inv, Where
  <2>5. Filled'
    BY <2>1, <2>2 DEF Inv, Filled, Bound
  <2>6. Authorised'
    BY <2>1, <2>2 DEF Inv, Authorised, Bound, Granted
  <2>7. Tables'
    BY <2>1 DEF Inv, Tables
  <2> QED
    BY <2>3, <2>4, <2>5, <2>6, <2>7 DEF Inv
<1> QED
  BY <1>1, <1>2

LEMMA AuditStep == ASSUME Inv, NEW r \in Reqs, Audit(r) PROVE Inv'
  BY DoneStep DEF Audit, grantVars, peerVars, Inv, Where

-----------------------------------------------------------------------------
LEMMA DeleteFindStep == ASSUME Inv, NEW r \in Reqs, DeleteFind(r) PROVE Inv'
<1>1. CASE ~ RowFound(r)
  BY <1>1, DoneStep DEF DeleteFind, grantVars, peerVars
<1>2. CASE RowFound(r)
  <2>1. /\ pc[r] = "find" /\ Goto(r, "write")
        /\ UNCHANGED <<can, rowId, gone, mounted, wire, taken, audited>>
    BY <1>2 DEF DeleteFind, grantVars, peerVars
  <2>2. /\ pc' \in [Reqs -> PCs] /\ pc'[r] = "write" /\ \A p \in Reqs \ {r} : pc'[p] = pc[p]
        /\ UNCHANGED <<rq, held, moved>>
    BY <2>1, GotoKeeps DEF PCs
  <2>3. Typed'
    BY <2>1, <2>2 DEF Inv, Typed
  <2>4. Where'
    BY <2>1, <2>2 DEF Inv, Where
  <2>5. Filled'
    BY <2>1, <2>2 DEF Inv, Filled, Bound
  <2>6. Authorised'
    BY <2>1, <2>2 DEF Inv, Authorised, Bound, Granted
  <2>7. Tables'
    BY <2>1 DEF Inv, Tables
  <2> QED
    BY <2>3, <2>4, <2>5, <2>6, <2>7 DEF Inv
<1> QED
  BY <1>1, <1>2

LEMMA PutWriteStep == ASSUME Inv, NEW r \in Reqs, PutWrite(r) PROVE Inv'
<1> DEFINE u == rq[r].user
           s == rq[r].server
           block == rq[r].perms \cup {"observe"}
<1>1. u \in Users /\ s \in Servers /\ rq[r].op = "put" /\ u \notin gone /\ block \subseteq Caps
  BY DEF Inv, Filled, PutWrite, Referable, Typed, Requests, Caps
<1>2. /\ pc' = [pc EXCEPT ![r] = "audit"] /\ pc[r] = "write" /\ taken' = taken \cup {r}
      /\ can' = [can EXCEPT ![<<u, s>>] = block]
      /\ rowId' = [rowId EXCEPT ![<<u, s>>] = IF @ = None THEN r ELSE @]
      /\ UNCHANGED <<gone, mounted, wire, audited, rq, moved>>
  BY DEF PutWrite, Target
<1>3. can'[Target(r)] = block
  BY <1>1, <1>2 DEF Target, Inv, Tables
<1>4. \A q \in Reqs :
         held'[q] = IF pc[q] \notin {"new", "done"} /\ rq[q].user = u
                    THEN held[q] \cup {<<s, c>> : c \in block} ELSE held[q]
  BY <1>3 DEF PutWrite
<1>5. {<<s, c>> : c \in block} \subseteq Servers \X Caps
  BY <1>1
<1>6. held' \in [Reqs -> SUBSET (Servers \X Caps)]
  <2>1. held' = [q \in Reqs |-> held'[q]]
    BY SMT DEF PutWrite
  <2> QED
    BY <1>4, <1>5, <2>1 DEF Inv, Typed
<1>7. Typed'
  BY <1>2, <1>6 DEF Inv, Typed, PCs
<1>8. Where'
  BY <1>2 DEF Inv, Where, Typed
<1>9. Filled'
  BY <1>2 DEF Inv, Filled, Bound, Typed
<1>10. Authorised'
  <2>1. \A q \in Reqs : held[q] \subseteq held'[q]
    BY <1>4
  <2>2. ASSUME NEW q \in Reqs, pc'[q] \in {"look", "grant"}
        PROVE  Granted(rq[q].user)' \subseteq held'[q]
    <3>1. pc[q] = pc'[q] /\ Granted(rq[q].user) \subseteq held[q] /\ rq[q].user \in Users
      BY <1>2, <2>2 DEF Inv, Authorised, Typed, Filled, Bound
    <3>2. CASE rq[q].user # u
      BY <1>1, <1>2, <2>1, <3>1, <3>2 DEF Granted, Inv, Tables
    <3>3. CASE rq[q].user = u
      <4>1. ASSUME NEW a \in Servers, NEW c \in Caps, c \in can'[<<u, a>>]
            PROVE  <<a, c>> \in held'[q]
        <5>1. CASE a = s
          BY <1>2, <1>3, <1>4, <2>2, <3>1, <3>3, <4>1, <5>1 DEF Target
        <5>2. CASE a # s
          <6>1. can'[<<u, a>>] = can[<<u, a>>]
            BY <1>1, <1>2, <5>2 DEF Inv, Tables
          <6> QED
            BY <1>1, <2>1, <3>1, <3>3, <4>1, <6>1 DEF Granted
        <5> QED
          BY <5>1, <5>2
      <4> QED
        BY <1>2, <3>3, <4>1 DEF Granted
    <3> QED
      BY <1>2, <3>2, <3>3
  <2> QED
    BY <1>2, <2>1, <2>2 DEF Inv, Authorised, Bound, Typed
<1>11. Tables'
  <2>1. can' \in [Users \X Servers -> SUBSET Caps]
    BY <1>1, <1>2 DEF Inv, Tables
  <2>2. rowId' \in [Users \X Servers -> Reqs \cup {None, Seed}]
    BY <1>1, <1>2 DEF Inv, Tables
  <2>3. \A g \in Users \X Servers : /\ rowId'[g] = None <=> can'[g] = {}
                                    /\ rowId'[g] # None => g[1] \notin gone
    <3>1. block # {} /\ r # None
      BY SlotsAssumption
    <3>2. ASSUME NEW g \in Users \X Servers, g = <<u, s>>
          PROVE  rowId'[g] # None /\ can'[g] # {} /\ g[1] \notin gone
      BY <1>1, <1>2, <3>1, <3>2 DEF Inv, Tables
    <3>3. ASSUME NEW g \in Users \X Servers, g # <<u, s>>
          PROVE  rowId'[g] = rowId[g] /\ can'[g] = can[g]
      BY <1>2, <3>3 DEF Inv, Tables
    <3> QED
      BY <3>2, <3>3 DEF Inv, Tables
  <2> QED
    BY <1>2, <2>1, <2>2, <2>3 DEF Inv, Tables
<1> QED
  BY <1>7, <1>8, <1>9, <1>10, <1>11 DEF Inv

LEMMA DeleteWriteStep == ASSUME Inv, NEW r \in Reqs, DeleteWrite(r) PROVE Inv'
<1>1. /\ pc[r] = "write" /\ Goto(r, "audit") /\ taken' = taken \cup {r}
      /\ rowId' = [rowId EXCEPT ![Target(r)] = None] /\ can' = [can EXCEPT ![Target(r)] = {}]
      /\ UNCHANGED <<gone, mounted, wire, audited>>
  BY DEF DeleteWrite
<1>2. /\ pc' \in [Reqs -> PCs] /\ pc'[r] = "audit" /\ \A p \in Reqs \ {r} : pc'[p] = pc[p]
      /\ UNCHANGED <<rq, held, moved>>
  BY <1>1, GotoKeeps DEF PCs
<1>3. Typed'
  BY <1>1, <1>2 DEF Inv, Typed
<1>4. Where'
  BY <1>1, <1>2 DEF Inv, Where
<1>5. Filled'
  BY <1>1, <1>2 DEF Inv, Filled, Bound
<1>6. \A u : u \in Users => Granted(u)' \subseteq Granted(u)
  BY <1>1 DEF Inv, Tables, Granted
<1>7. Authorised'
  BY <1>1, <1>2, <1>6 DEF Inv, Authorised, Bound, Filled
<1>8. Tables'
  BY <1>1, SlotsAssumption DEF Inv, Tables
<1> QED
  BY <1>3, <1>4, <1>5, <1>7, <1>8 DEF Inv

LEMMA UserDeleteStep == ASSUME Inv, NEW u \in Users, UserDelete(u) PROVE Inv'
<1>1. UNCHANGED <<pc, rq, held, moved, wire, mounted, taken, audited>>
  BY DEF UserDelete, reqVars, peerVars
<1>2. Typed' /\ Where' /\ Filled'
  BY <1>1 DEF Inv, Typed, Where, Filled, Bound
<1>3. \A v : v \in Users => Granted(v)' \subseteq Granted(v)
  BY DEF UserDelete, Inv, Tables, Granted
<1>4. Authorised'
  BY <1>1, <1>3 DEF Inv, Authorised, Bound, Filled
<1>5. Tables'
  BY <1>1 DEF Inv, Tables, UserDelete
<1> QED
  BY <1>2, <1>4, <1>5 DEF Inv

-----------------------------------------------------------------------------
LEMMA OffWireKeeps ==
  ASSUME Typed, NEW r \in Reqs, r \in wire, pc[r] \in {"wait", "done"}, OffWire(r)
  PROVE  /\ wire' = wire \ {r}
         /\ rq' \in [Reqs -> Requests] /\ held' \in [Reqs -> SUBSET (Servers \X Caps)]
         /\ \A q \in Reqs \ {r} : rq'[q] = rq[q] /\ held'[q] = held[q]
  BY ForgetType DEF OffWire

LEMMA TakeStep == ASSUME Inv, NEW r \in Reqs, Take(r) PROVE Inv'
<1>1. /\ r \in wire /\ pc[r] \in {"wait", "done"} /\ taken' = taken \cup {r}
      /\ UNCHANGED <<can, rowId, gone, pc, audited>>
      /\ moved' = (moved \cup Stirred) \ {r}
  BY DEF Take, Inv, Where, grantVars
<1>2. /\ wire' = wire \ {r}
      /\ rq' \in [Reqs -> Requests] /\ held' \in [Reqs -> SUBSET (Servers \X Caps)]
      /\ \A q \in Reqs \ {r} : rq'[q] = rq[q] /\ held'[q] = held[q]
  BY <1>1, OffWireKeeps DEF Take, Inv
<1>3. mounted' \in [Slots -> Servers \cup {None}]
  <2>1. CASE rq[r].op = "start"
    BY <1>1, <2>1 DEF Take, Inv, Tables, Filled, Bound
  <2>2. CASE rq[r].op = "stop"
    BY <2>2 DEF Take, Inv, Tables
  <2>3. CASE rq[r].op \notin {"start", "stop"}
    BY <2>3 DEF Take, Inv, Tables
  <2> QED
    BY <2>1, <2>2, <2>3
<1>4. Typed'
  BY <1>1, <1>2 DEF Inv, Typed, Stirred
<1>5. Where'
  BY <1>1, <1>2 DEF Inv, Where
<1>6. Filled'
  BY <1>1, <1>2 DEF Inv, Filled, Bound, Where
<1>7. Authorised'
  <2>1. Authorised!(r)'
    BY <1>1, <1>2 DEF Bound
  <2>2. ASSUME NEW q \in Reqs \ {r} PROVE Authorised!(q)'
    <3>1. Bound(q)' => Bound(q)
      BY <1>1, <1>2 DEF Bound
    <3>2. ASSUME Bound(q), rq[q].op \notin {"start", "refresh"}
          PROVE  q \in moved' \/ mounted'[rq[q].slot] = rq[q].server
      <4>1. rq[q].slot # None
        BY <3>2, SlotsAssumption DEF Inv, Filled
      <4> QED
        BY <1>1, <3>2, <4>1 DEF Inv, Authorised, Stirred, Bound
    <3> QED
      BY <1>1, <1>2, <3>1, <3>2 DEF Inv, Authorised, Granted
  <2> QED
    BY <2>1, <2>2 DEF Authorised
<1>8. Tables'
  BY <1>1, <1>3 DEF Inv, Tables
<1> QED
  BY <1>4, <1>5, <1>6, <1>7, <1>8 DEF Inv

LEMMA DropStep == ASSUME Inv, NEW r \in Reqs, Drop(r) PROVE Inv'
<1>1. /\ r \in wire /\ pc[r] \in {"wait", "done"} /\ moved' = moved \ {r}
      /\ UNCHANGED <<can, rowId, gone, pc, audited, mounted, taken>>
  BY DEF Drop, Inv, Where, grantVars
<1>2. /\ wire' = wire \ {r}
      /\ rq' \in [Reqs -> Requests] /\ held' \in [Reqs -> SUBSET (Servers \X Caps)]
      /\ \A q \in Reqs \ {r} : rq'[q] = rq[q] /\ held'[q] = held[q]
  BY <1>1, OffWireKeeps DEF Drop, Inv
<1>3. Typed'
  BY <1>1, <1>2 DEF Inv, Typed
<1>4. Where'
  BY <1>1, <1>2 DEF Inv, Where
<1>5. Filled'
  BY <1>1, <1>2 DEF Inv, Filled, Bound, Where
<1>6. Authorised'
  BY <1>1, <1>2 DEF Inv, Authorised, Bound, Granted
<1>7. Tables'
  BY <1>1 DEF Inv, Tables
<1> QED
  BY <1>3, <1>4, <1>5, <1>6, <1>7 DEF Inv

LEMMA PeerChangeStep ==
  ASSUME Inv, NEW slot \in Slots, NEW s \in Servers \cup {None}, PeerChange(slot, s)
  PROVE  Inv'
<1>1. /\ moved' = moved \cup Stirred /\ mounted' = [mounted EXCEPT ![slot] = s]
      /\ UNCHANGED <<can, rowId, gone, pc, rq, held, audited, wire, taken>>
  BY DEF PeerChange, grantVars
<1>2. Typed' /\ Where' /\ Filled'
  BY <1>1 DEF Inv, Typed, Where, Filled, Bound, Stirred
<1>3. ASSUME NEW q \in Reqs, Bound(q), rq[q].op \notin {"start", "refresh"}
      PROVE  q \in moved' \/ mounted'[rq[q].slot] = rq[q].server
  <2>1. rq[q].slot # None
    BY <1>3, SlotsAssumption DEF Inv, Filled
  <2> QED
    BY <1>1, <1>3, <2>1 DEF Inv, Authorised, Stirred, Bound
<1>4. Authorised'
  BY <1>1, <1>3 DEF Inv, Authorised, Bound, Granted
<1>5. Tables'
  BY <1>1 DEF Inv, Tables
<1> QED
  BY <1>2, <1>4, <1>5 DEF Inv

LEMMA RestartStep == ASSUME Inv, Restart PROVE Inv'
<1>1. /\ pc' = [r \in Reqs |-> IF pc[r] = "new" THEN "new" ELSE "done"]
      /\ moved' = moved \cap wire
      /\ UNCHANGED <<can, rowId, gone, audited, mounted, wire, taken>>
  BY DEF Restart, grantVars, peerVars
<1>2. /\ rq' \in [Reqs -> Requests] /\ held' \in [Reqs -> SUBSET (Servers \X Caps)]
      /\ \A q \in Reqs : q \in wire => rq'[q] = rq[q] /\ held'[q] = held[q]
  BY ForgetType DEF Restart, Inv
<1>3. Typed'
  BY <1>1, <1>2 DEF Inv, Typed, PCs
<1>4. Where'
  BY <1>1 DEF Inv, Where
<1>5. Filled'
  BY <1>1, <1>2 DEF Inv, Filled, Bound
<1>6. Authorised'
  BY <1>1, <1>2 DEF Inv, Authorised, Bound, Granted
<1>7. Tables'
  BY <1>1 DEF Inv, Tables
<1> QED
  BY <1>3, <1>4, <1>5, <1>6, <1>7 DEF Inv

-----------------------------------------------------------------------------
\* The steps of the process and of the peer that touch more than the cache.
LEMMA HandleStep == ASSUME Inv, NEW r \in Reqs, Handle(r) PROVE Inv'
<1>1. ASSUME LookFail(r) \/ SendFail(r) \/ AnswerFail(r) \/ WriteFail(r) PROVE Inv'
  BY <1>1, FailStep DEF LookFail, SendFail, AnswerFail, GivesUp, WriteFail
<1> QED
  BY <1>1, LookStep, AssertGrantStep, ShowDetailStep, SendStep, AnswerStep, AuditStep,
     DeleteFindStep, PutWriteStep, DeleteWriteStep DEF Handle

\* The cache changes by itself, too.
CacheNext ==
    \/ \E f \in Fetches : FedAsk(f) \/ FedStore(f) \/ FedFail(f) \/ \E k \in Keys : FedMiss(f, k)
    \/ \E k \in Keys : FedExpire(k)

LEMMA Beside ==
  ASSUME CacheNext \/ UNCHANGED vars
  PROVE  UNCHANGED <<can, rowId, gone, pc, rq, held, moved, audited, wire, mounted, taken>>
  BY DEF CacheNext, FedMiss, FedAsk, FedStore, FedFail, FedExpire, vars, grantVars, reqVars,
         peerVars

LEMMA InvInit == Init => Inv
<1> SUFFICES ASSUME Init PROVE Inv
  OBVIOUS
<1>1. Typed
  BY BlankType DEF Init, Typed, PCs
<1>2. Where /\ Filled /\ Authorised
  BY DEF Init, Where, Filled, Authorised, Bound
<1>3. Tables
  <2>1. can \in [Users \X Servers -> SUBSET Caps]
    <3>1. \A p \in Permissions : p \cup {"observe"} \in SUBSET Caps
      BY SlotsAssumption DEF Caps
    <3>2. {p \cup {"observe"} : p \in Permissions} \cup {{}} \subseteq SUBSET Caps
      BY <3>1
    <3> QED
      BY <3>2 DEF Init
  <2> QED
    BY <2>1, SlotsAssumption DEF Init, Tables
<1> QED
  BY <1>1, <1>2, <1>3 DEF Inv

LEMMA InvStep == Inv /\ [Next]_vars => Inv'
<1> SUFFICES ASSUME Inv, [Next]_vars PROVE Inv'
  OBVIOUS
<1>1. CASE CacheNext \/ UNCHANGED vars
  BY <1>1, Beside DEF Inv, Typed, Where, Filled, Authorised, Tables, Bound, Granted
<1>2. CASE \E r \in Reqs : Arrive(r) \/ Handle(r) \/ Take(r) \/ Drop(r)
  BY <1>2, ArriveStep, HandleStep, TakeStep, DropStep
<1>3. CASE \E u \in Users : UserDelete(u)
  BY <1>3, UserDeleteStep
<1>4. CASE \E slot \in Slots, s \in Servers \cup {None} : PeerChange(slot, s)
  BY <1>4, PeerChangeStep
<1>5. CASE Restart
  BY <1>5, RestartStep
<1> QED
  BY <1>1, <1>2, <1>3, <1>4, <1>5 DEF Next, CacheNext

\* Requests, tables and the wire always fit together as Inv says.
THEOREM InvAlways == Spec => []Inv
  BY InvInit, InvStep, PTL DEF Spec

-----------------------------------------------------------------------------
CacheInv == Cache /\ Current

\* Who changes what was carried out, and the cache.
LEMMA Writers ==
  ASSUME Next
  PROVE  /\ \/ taken' = taken
            \/ \E r \in Reqs : /\ taken' = taken \cup {r}
                               /\ Take(r) \/ ShowDetail(r) \/ PutWrite(r) \/ DeleteWrite(r)
         /\ \/ UNCHANGED fedVars
            \/ \E r \in Reqs : r \in taken /\ Invalidate(r)
            \/ CacheNext
            \/ Restart
<1>1. ASSUME NEW r \in Reqs, Arrive(r) PROVE taken' = taken /\ UNCHANGED fedVars
  <2>1. ASSUME NEW step, NEW q, Begin(r, step, q) PROVE taken' = taken /\ UNCHANGED fedVars
    BY <2>1 DEF Begin, peerVars
  <2> QED
    BY <1>1, <2>1 DEF Arrive, BeginMounted, BeginStart, BeginRefresh, BeginPut, BeginDelete
<1>2. ASSUME NEW r \in Reqs, Answer(r)
      PROVE  taken' = taken /\ (UNCHANGED fedVars \/ (r \in taken /\ Invalidate(r)))
  BY <1>2 DEF Answer, peerVars
<1>3. ASSUME NEW r \in Reqs, Handle(r), ~ Answer(r)
      PROVE  /\ UNCHANGED fedVars
             /\ \/ taken' = taken
                \/ taken' = taken \cup {r} /\ (ShowDetail(r) \/ PutWrite(r) \/ DeleteWrite(r))
  <2>1. CASE ShowDetail(r) \/ PutWrite(r) \/ DeleteWrite(r)
    BY <2>1 DEF ShowDetail, PutWrite, DeleteWrite
  <2>2. CASE LookFail(r) \/ SendFail(r) \/ AnswerFail(r) \/ WriteFail(r)
    BY <2>2 DEF LookFail, SendFail, AnswerFail, WriteFail, Fail, peerVars
  <2>3. CASE Look(r) \/ AssertGrant(r) \/ Send(r) \/ Audit(r) \/ DeleteFind(r)
    BY <2>3 DEF Look, AssertGrant, Send, Audit, DeleteFind, peerVars
  <2> QED
    BY <1>3, <2>1, <2>2, <2>3 DEF Handle
<1>4. ASSUME NEW r \in Reqs, Take(r) PROVE taken' = taken \cup {r} /\ UNCHANGED fedVars
  BY <1>4 DEF Take
<1>5. ASSUME NEW r \in Reqs, Drop(r) PROVE taken' = taken /\ UNCHANGED fedVars
  BY <1>5 DEF Drop
<1>6. ASSUME NEW u \in Users, UserDelete(u) PROVE taken' = taken /\ UNCHANGED fedVars
  BY <1>6 DEF UserDelete, peerVars
<1>7. ASSUME NEW slot \in Slots, NEW s \in Servers \cup {None}, PeerChange(slot, s)
      PROVE  taken' = taken /\ UNCHANGED fedVars
  BY <1>7 DEF PeerChange
<1>8. CASE CacheNext
  BY <1>8, Beside
<1>9. CASE Restart
  BY <1>9 DEF Restart, peerVars
<1> QED
  BY <1>1, <1>2, <1>3, <1>4, <1>5, <1>6, <1>7, <1>8, <1>9 DEF Next, CacheNext

LEMMA CacheInit == Init => CacheInv
<1> SUFFICES ASSUME Init PROVE CacheInv
  OBVIOUS
<1>1. /\ \A k \in Keys : fed[k] = None
      /\ \A f \in Fetches : fetch[f] = None
      /\ settled = {}
  BY DEF Init
<1>2. Cache
  BY <1>1 DEF Init, Cache
<1>3. Current
  BY <1>1 DEF Current, SettledSeen
<1> QED
  BY <1>2, <1>3 DEF CacheInv

LEMMA CacheStep == Inv /\ CacheInv /\ [Next]_vars => CacheInv'
<1> SUFFICES ASSUME Inv, CacheInv, [Next]_vars PROVE CacheInv'
  OBVIOUS
<1>0. taken \subseteq taken' /\ taken' \subseteq Reqs
  <2>1. taken \subseteq taken'
    BY Writers DEF vars, peerVars
  <2> QED
    BY <2>1, InvStep DEF Inv, Typed
<1>1. CASE UNCHANGED fedVars
  BY <1>0, <1>1 DEF CacheInv, Cache, Current, SettledSeen, fedVars
<1>2. ASSUME NEW r \in Reqs, r \in taken, Invalidate(r) PROVE CacheInv'
  <2>1. ASSUME NEW f \in Fetches
        PROVE  /\ fetch[f] = None => fetch'[f] = None
               /\ fetch[f] # None => fetch'[f] = [fetch[f] EXCEPT !.late = fetch[f].asked]
    BY <1>2 DEF Invalidate
  <2>2. fetch' \in [Fetches -> [key : Keys, asked : BOOLEAN, seen : SUBSET Reqs,
                                late : BOOLEAN] \cup {None}]
    BY <1>2 DEF Invalidate, CacheInv, Cache
  <2>3. \A f \in Fetches : fetch'[f] # None =>
            fetch'[f].seen = fetch[f].seen /\ fetch[f] # None /\ (fetch'[f].asked => fetch'[f].late)
    BY <2>1 DEF CacheInv, Cache
  <2>4. /\ fed' = [k \in Keys |-> None] /\ settled' = settled \cup {r}
        /\ \A k \in Keys : fed'[k] = None
    BY <1>2 DEF Invalidate
  <2>5. Cache'
    BY <1>0, <1>2, <2>2, <2>3, <2>4 DEF CacheInv, Cache
  <2>6. Current'
    BY <2>3, <2>4 DEF Current, SettledSeen
  <2> QED
    BY <2>5, <2>6 DEF CacheInv
<1>3. ASSUME NEW f \in Fetches, NEW k \in Keys, FedMiss(f, k) PROVE CacheInv'
  BY <1>0, <1>3 DEF FedMiss, CacheInv, Cache, Current, SettledSeen
<1>4. ASSUME NEW f \in Fetches, FedAsk(f) PROVE CacheInv'
  BY <1>0, <1>4 DEF FedAsk, CacheInv, Cache, Current, SettledSeen, peerVars
<1>5. ASSUME NEW f \in Fetches, FedStore(f) PROVE CacheInv'
  <2>1. PICK seen \in SUBSET taken : /\ fetch[f].seen \subseteq seen
                                     /\ fed' = [fed EXCEPT ![fetch[f].key] = seen]
    BY <1>5 DEF FedStore
  <2>2. /\ fetch[f].key \in Keys /\ fetch[f] # None /\ fetch[f].asked
        /\ fetch' = [fetch EXCEPT ![f] = None] /\ settled' = settled
        /\ raced' = IF fetch[f].late THEN raced \cup {fetch[f].key} ELSE raced \ {fetch[f].key}
        /\ taken' = taken
    BY <1>5 DEF FedStore, CacheInv, Cache, peerVars
  <2>3. Cache'
    BY <1>0, <2>1, <2>2 DEF CacheInv, Cache
  <2>4. ~ fetch[f].late => settled \subseteq seen
    BY <2>1, <2>2 DEF CacheInv, Current
  <2>5. Current'
    BY <2>1, <2>2, <2>4 DEF CacheInv, Cache, Current, SettledSeen
  <2> QED
    BY <2>3, <2>5 DEF CacheInv
<1>6. ASSUME NEW f \in Fetches, FedFail(f) PROVE CacheInv'
  BY <1>0, <1>6 DEF FedFail, CacheInv, Cache, Current, SettledSeen
<1>7. ASSUME NEW k \in Keys, FedExpire(k) PROVE CacheInv'
  <2>1. /\ fed' = [fed EXCEPT ![k] = None] /\ raced' = raced \ {k}
        /\ fetch' = fetch /\ settled' = settled /\ fed'[k] = None
    BY <1>7 DEF FedExpire, CacheInv, Cache
  <2>2. Cache'
    BY <1>0, <2>1 DEF CacheInv, Cache
  <2>3. Current'
    BY <2>1 DEF CacheInv, Current, SettledSeen
  <2> QED
    BY <2>2, <2>3 DEF CacheInv
<1>8. CASE Restart
  <2>1. /\ fed' = [k \in Keys |-> None] /\ fetch' = [f \in Fetches |-> None]
        /\ settled' = settled
        /\ \A k \in Keys : fed'[k] = None
        /\ \A f \in Fetches : fetch'[f] = None
    BY <1>8 DEF Restart
  <2>2. Cache'
    BY <1>0, <2>1 DEF CacheInv, Cache
  <2>3. Current'
    BY <2>1 DEF Current, SettledSeen
  <2> QED
    BY <2>2, <2>3 DEF CacheInv
<1> QED
  BY <1>1, <1>2, <1>3, <1>4, <1>5, <1>6, <1>7, <1>8, Writers DEF CacheNext, vars

LEMMA CacheAlways == Spec => []CacheInv
  BY InvAlways, CacheInit, CacheStep, PTL DEF Spec

\* fleet.ts:95: a cached federation answer reflects every action whose
\* invalidation is done, unless that invalidation overtook the answer.
THEOREM SettledSeenAlways == Spec => []SettledSeen
<1>1. CacheInv => SettledSeen
  BY DEF CacheInv, Current
<1> QED
  BY <1>1, CacheAlways, PTL

\* Grants, slots and in-flight actions stay well formed; a grant row always
\* refers to a user who is not deleted, whatever was in flight at the deletion.
THEOREM TypeCorrect == Spec => []TypeOK
<1>1. Inv /\ CacheInv => TypeOK
  BY DEF Inv, CacheInv, Cache, Typed, Where, Tables, TypeOK
<1> QED
  BY <1>1, InvAlways, CacheAlways, PTL

\* audit.ts: an audit row stands for an action that was carried out.
THEOREM AuditRowsTruthful == Spec => []AuditTruthful
<1>1. Inv => AuditTruthful
  BY DEF Inv, Typed, Where, AuditTruthful
<1> QED
  BY <1>1, InvAlways, PTL

\* check.ts: nothing is done or shown to a user who held no grant for it while
\* the request ran, but on a slot that was remounted after the look-up.
THEOREM GrantHeldHolds == Spec => GrantHeld
<1>1. Inv /\ [Next]_vars =>
        [\A r \in taken' \ taken :
          \/ rq[r].admin \/ rq[r].op \in GrantOps \cup {"refresh"}
          \/ <<Hits(r), CapOf(rq[r].op)>> \in held[r]
          \/ rq[r].op # "start" /\ r \in moved]_vars
  <2> SUFFICES ASSUME Inv, [Next]_vars, NEW r \in taken' \ taken,
                      ~ rq[r].admin, rq[r].op \notin GrantOps \cup {"refresh"}
               PROVE  \/ <<Hits(r), CapOf(rq[r].op)>> \in held[r]
                      \/ rq[r].op # "start" /\ r \in moved
    OBVIOUS
  <2>1. r \in Reqs
    BY InvStep DEF Inv, Typed
  <2>2. Take(r) \/ ShowDetail(r) \/ PutWrite(r) \/ DeleteWrite(r)
    BY Writers DEF vars, peerVars
  <2>3. CASE Take(r)
    <3>1. r \in wire /\ Bound(r)
      BY <2>3 DEF Take, Bound
    <3> QED
      BY <2>1, <3>1 DEF Inv, Authorised, Hits, GrantOps
  <2>4. CASE ShowDetail(r)
    <3>1. pc[r] = "grant" /\ rq[r].op = "detail" /\ MayDo(r)
      BY <2>4 DEF ShowDetail
    <3> QED
      BY <2>1, <3>1, CheckedGrant DEF Hits
  <2>5. CASE PutWrite(r) \/ DeleteWrite(r)
    BY <2>5 DEF PutWrite, DeleteWrite, GrantOps
  <2> QED
    BY <2>2, <2>3, <2>4, <2>5
<1> QED
  BY <1>1, InvAlways, PTL DEF Spec, GrantHeld

-----------------------------------------------------------------------------
(* the grant holds when the action is carried out *)

\* From the look at the slot until the peer is done with r, its caller does not
\* lose the capability it asks for, and nobody else remounts its slot.
Undisturbed(r) ==
    Bound(r) /\ rq[r].op # "refresh" =>
        /\ HasGrant(r) => CapOf(rq[r].op) \in can'[Target(r)]
        /\ r \notin taken' => mounted'[rq[r].slot] = mounted[rq[r].slot]

\* Then what was checked is still so.
Checked(r) == (pc[r] = "send" \/ r \in wire) /\ rq[r].op # "refresh" => MayDo(r)
InPlace(r) ==
    Bound(r) /\ rq[r].op \notin {"start", "refresh"} => mounted[rq[r].slot] = rq[r].server
Valid(r) == Checked(r) /\ InPlace(r)

\* r is asked for nothing new, and is no further than it was.
Same(r) ==
    /\ rq'[r] = rq[r]
    /\ Bound(r)' => Bound(r)
    /\ pc'[r] = "send" \/ r \in wire' => pc[r] = "send" \/ r \in wire

LEMMA SameKeeps ==
  ASSUME Inv', NEW r \in Reqs, Valid(r), Undisturbed(r), Bound(r)' => Same(r)
  PROVE  Valid(r)'
<1>1. Bound(r)' => r \notin taken'
  BY DEF Inv, Where, Bound
<1>2. CASE ~ Bound(r)'
  BY <1>2 DEF Valid, Checked, InPlace, Bound
<1>3. CASE Bound(r)'
  <2>1. Bound(r) /\ rq'[r] = rq[r] /\ r \notin taken'
    BY <1>1, <1>3 DEF Same
  <2>2. Checked(r)'
    BY <1>3, <2>1 DEF Valid, Checked, Same, Undisturbed, MayDo, HasGrant, Target
  <2>3. InPlace(r)'
    BY <2>1 DEF Valid, InPlace, Undisturbed
  <2> QED
    BY <2>2, <2>3 DEF Valid
<1> QED
  BY <1>2, <1>3

\* The steps of r itself.
LEMMA OwnCurrent ==
  ASSUME Inv, Inv', NEW r \in Reqs, Valid(r), Undisturbed(r),
         Arrive(r) \/ Handle(r) \/ Take(r) \/ Drop(r)
  PROVE  Valid(r)'
<1>0. pc \in [Reqs -> PCs] /\ rq \in [Reqs -> Requests]
  BY DEF Inv, Typed
<1>1. CASE Arrive(r)
  <2>1. ASSUME NEW step, NEW q, Begin(r, step, q),
               \/ step \in {"look", "find", "write"}
               \/ step = "grant" /\ q.op = "start"
               \/ step = "send" /\ q.op = "refresh"
        PROVE  Valid(r)'
    <3>1. pc'[r] = step /\ rq'[r] = q /\ r \notin wire'
      BY <1>0, <2>1 DEF Begin, peerVars, Inv, Where
    <3> QED
      BY <2>1, <3>1 DEF Valid, Checked, InPlace, Bound
  <2>2. ASSUME NEW u \in Users, NEW isAdmin \in BOOLEAN, NEW slot \in Slots, NEW op \in Ops,
               BeginMounted(r, u, isAdmin, op, slot)
        PROVE  Valid(r)'
    BY <2>1, <2>2 DEF BeginMounted
  <2>3. ASSUME NEW u \in Users, NEW isAdmin \in BOOLEAN, NEW slot \in Slots, NEW s \in Servers,
               BeginStart(r, u, isAdmin, slot, s)
        PROVE  Valid(r)'
    BY <2>1, <2>3 DEF BeginStart, Blank
  <2>4. ASSUME NEW u \in Users, BeginRefresh(r, u) PROVE Valid(r)'
    BY <2>1, <2>4 DEF BeginRefresh, Blank
  <2>5. ASSUME NEW u \in Users, NEW s \in Servers,
               BeginDelete(r, u, s) \/ \E perms \in Permissions : BeginPut(r, u, s, perms)
        PROVE  Valid(r)'
    BY <2>1, <2>5 DEF BeginDelete, BeginPut
  <2> QED
    BY <1>1, <2>2, <2>3, <2>4, <2>5 DEF Arrive
<1>2. CASE Look(r)
  BY <1>0, <1>2 DEF Look, Valid, Checked, InPlace, Bound, peerVars, Inv, Where, Requests
<1>3. CASE AssertGrant(r)
  <2>1. CASE MayDo(r)
    BY <1>0, <1>3, <2>1 DEF AssertGrant, Goto, Valid, Checked, InPlace, Bound, MayDo, HasGrant,
       grantVars, peerVars
  <2>2. CASE ~ MayDo(r)
    BY <1>0, <1>3, <2>2, SameKeeps DEF AssertGrant, Done, Bound, Inv, Where, peerVars
  <2> QED
    BY <2>1, <2>2
<1>4. CASE Send(r)
  BY <1>0, <1>4, SameKeeps DEF Send, Goto, Same, Bound
<1>5. ASSUME pc'[r] \notin {"grant", "send"}, r \notin wire' PROVE Valid(r)'
  BY <1>5 DEF Valid, Checked, InPlace, Bound
<1>6. CASE Take(r) \/ Drop(r)
  BY <1>0, <1>5, <1>6 DEF Take, Drop, OffWire, Inv, Where
<1>7. ASSUME Done(r), wire' = wire PROVE Valid(r)'
  BY <1>0, <1>7, SameKeeps DEF Done, Forget, Same, Bound
<1>8. CASE LookFail(r) \/ SendFail(r) \/ AnswerFail(r) \/ WriteFail(r)
  BY <1>7, <1>8 DEF LookFail, SendFail, AnswerFail, WriteFail, Fail, peerVars
<1>9. CASE ShowDetail(r) \/ Audit(r)
  BY <1>7, <1>9 DEF ShowDetail, Audit, peerVars
<1>10. ASSUME NEW x \in {"audit", "write"}, Goto(r, x), wire' = wire PROVE Valid(r)'
  BY <1>0, <1>10, SameKeeps DEF Goto, Same, Bound
<1>11. CASE Answer(r)
  BY <1>7, <1>10, <1>11 DEF Answer, peerVars
<1>12. CASE DeleteFind(r)
  BY <1>7, <1>10, <1>12 DEF DeleteFind, peerVars
<1>13. CASE DeleteWrite(r)
  BY <1>10, <1>13 DEF DeleteWrite
<1>14. CASE PutWrite(r)
  BY <1>0, <1>14, SameKeeps DEF PutWrite, Same, Bound
<1> QED
  BY <1>1, <1>2, <1>3, <1>4, <1>6, <1>8, <1>9, <1>11, <1>12, <1>13, <1>14 DEF Handle

LEMMA OthersLeave ==
  ASSUME Inv, NEW r \in Reqs, [Next]_vars, ~ (Arrive(r) \/ Handle(r) \/ Take(r) \/ Drop(r))
  PROVE  Bound(r)' => Same(r)
<1>0. pc \in [Reqs -> PCs] /\ rq \in [Reqs -> Requests]
  BY DEF Inv, Typed
<1>1. ASSUME NEW q \in Reqs \ {r}, Arrive(q) PROVE Same(r)
  <2>1. ASSUME NEW step, NEW b, Begin(q, step, b) PROVE Same(r)
    BY <1>0, <2>1 DEF Begin, Same, Bound, peerVars
  <2> QED
    BY <1>1, <2>1 DEF Arrive, BeginMounted, BeginStart, BeginRefresh, BeginPut, BeginDelete
<1>2. ASSUME NEW q \in Reqs \ {r}, Handle(q) PROVE Same(r)
  <2>1. pc'[r] = pc[r] /\ rq'[r] = rq[r] /\ (r \in wire' => r \in wire)
    <3>1. ASSUME Done(q) PROVE pc'[r] = pc[r] /\ rq'[r] = rq[r]
      BY <1>0, <3>1 DEF Done, Forget
    <3>2. ASSUME NEW x, Goto(q, x) PROVE pc'[r] = pc[r] /\ rq'[r] = rq[r]
      BY <1>0, <3>2 DEF Goto
    <3>3. CASE LookFail(q) \/ SendFail(q) \/ AnswerFail(q) \/ WriteFail(q)
      BY <3>1, <3>3 DEF LookFail, SendFail, AnswerFail, WriteFail, Fail, peerVars
    <3>4. CASE ShowDetail(q) \/ Audit(q) \/ AssertGrant(q) \/ Send(q)
      BY <3>1, <3>2, <3>4 DEF ShowDetail, Audit, AssertGrant, Send, peerVars
    <3>5. CASE Answer(q) \/ DeleteFind(q) \/ DeleteWrite(q)
      BY <3>1, <3>2, <3>5 DEF Answer, DeleteFind, DeleteWrite, peerVars
    <3>6. CASE Look(q) \/ PutWrite(q)
      BY <1>0, <3>6 DEF Look, PutWrite, peerVars
    <3> QED
      BY <1>2, <3>3, <3>4, <3>5, <3>6 DEF Handle
  <2> QED
    BY <2>1 DEF Same, Bound
<1>3. ASSUME NEW q \in Reqs \ {r}, Take(q) \/ Drop(q) PROVE Same(r)
  BY <1>0, <1>3 DEF Take, Drop, OffWire, Forget, Same, Bound
<1>4. ASSUME UNCHANGED <<pc, rq, wire>> PROVE Same(r)
  BY <1>4 DEF Same, Bound
<1>5. CASE \/ \E u \in Users : UserDelete(u)
           \/ \E slot \in Slots, s \in Servers \cup {None} : PeerChange(slot, s)
           \/ CacheNext \/ UNCHANGED vars
  BY <1>4, <1>5, Beside DEF UserDelete, PeerChange, reqVars, peerVars, vars
<1>6. CASE Restart
  BY <1>0, <1>6 DEF Restart, Forget, Same, Bound, peerVars
<1> QED
  BY <1>1, <1>2, <1>3, <1>5, <1>6 DEF Next, CacheNext

Certain(r) ==
    r \in taken' \ taken =>
        \/ rq[r].admin \/ rq[r].op \in GrantOps \cup {"refresh"}
        \/ CapOf(rq[r].op) \in can[<<rq[r].user, Hits(r)>>]

LEMMA CurrentAction ==
  ASSUME Inv, NEW r \in Reqs, Valid(r), [Next]_vars PROVE Certain(r)
<1> SUFFICES ASSUME r \in taken' \ taken, ~ rq[r].admin, rq[r].op \notin GrantOps \cup {"refresh"}
             PROVE  CapOf(rq[r].op) \in can[<<rq[r].user, Hits(r)>>]
  BY DEF Certain
<1>1. Take(r) \/ ShowDetail(r) \/ PutWrite(r) \/ DeleteWrite(r)
  BY Writers DEF vars, peerVars
<1>2. CASE Take(r)
  <2>1. r \in wire /\ Bound(r)
    BY <1>2 DEF Take, Bound
  <2>2. HasGrant(r) /\ (rq[r].op # "start" => mounted[rq[r].slot] = rq[r].server)
    BY <2>1 DEF Valid, Checked, InPlace, MayDo
  <2> QED
    BY <2>2 DEF HasGrant, Hits
<1>3. CASE ShowDetail(r)
  BY <1>1, <1>3 DEF ShowDetail, MayDo, HasGrant, Hits
<1>4. CASE PutWrite(r) \/ DeleteWrite(r)
  BY <1>4 DEF PutWrite, DeleteWrite, GrantOps
<1> QED
  BY <1>1, <1>2, <1>3, <1>4

LEMMA CurrentAlways ==
  ASSUME NEW r \in Reqs PROVE Spec /\ [][Undisturbed(r)]_vars => [][Certain(r)]_vars
<1>1. Init => Valid(r)
  BY DEF Init, Valid, Checked, InPlace, Bound
<1>2. Inv /\ Inv' /\ Valid(r) /\ [Next]_vars /\ [Undisturbed(r)]_vars => Valid(r)'
  <2>1. ASSUME UNCHANGED vars, Valid(r) PROVE Valid(r)'
    BY <2>1 DEF vars, grantVars, reqVars, peerVars, Valid, Checked, InPlace, Bound, MayDo, HasGrant
  <2> QED
    BY <2>1, OwnCurrent, OthersLeave, SameKeeps
<1>3. Inv /\ Valid(r) /\ [Next]_vars => [Certain(r)]_vars
  BY CurrentAction
<1> QED
  BY <1>1, <1>2, <1>3, InvAlways, PTL DEF Spec

\* The exceptions of GrantHeld are all there are. As long as the caller of r does
\* not lose the capability between the look-up and the action, and the slot is not
\* remounted by others, whatever else goes on: when the peer carries r out, its
\* caller is an admin or holds the grant for the server it hits at that moment
\* (check.ts, slots.ts, actions.ts).
THEOREM GrantCurrent == \A r \in Reqs : Spec /\ [][Undisturbed(r)]_vars => [][Certain(r)]_vars
BY CurrentAlways

-----------------------------------------------------------------------------
(* every request ends *)

\* What comes after each step of a request.
After == [look |-> {"grant", "done"}, grant |-> {"send", "done"}, send |-> {"wait", "done"},
          wait |-> {"audit", "done"}, find |-> {"write", "done"}, write |-> {"audit", "done"},
          audit |-> {"done"}]
Going == {"look", "grant", "send", "wait", "find", "write", "audit"}

LEMMA HandlingMoves ==
  ASSUME Inv, NEW r \in Reqs, NEW x \in Going, pc[r] = x, Handle(r)
  PROVE  pc'[r] \in After[x] /\ \A q \in Reqs \ {r} : pc'[q] = pc[q]
<1>0. pc \in [Reqs -> PCs]
  BY DEF Inv, Typed
<1>1. ASSUME LookFail(r) \/ SendFail(r) \/ AnswerFail(r) \/ WriteFail(r)
      PROVE  pc' = [pc EXCEPT ![r] = "done"]
  BY <1>1 DEF LookFail, SendFail, AnswerFail, WriteFail, Fail, Done
<1>2. CASE Look(r)
  BY <1>0, <1>2 DEF Look, After
<1>3. CASE AssertGrant(r) \/ ShowDetail(r)
  BY <1>0, <1>3 DEF AssertGrant, ShowDetail, Goto, Done, After
<1>4. CASE Send(r)
  BY <1>0, <1>4 DEF Send, Goto, After
<1>5. CASE Answer(r)
  BY <1>0, <1>5 DEF Answer, Goto, Done, After
<1>6. CASE Audit(r)
  BY <1>0, <1>6 DEF Audit, Done, After
<1>7. CASE DeleteFind(r) \/ PutWrite(r) \/ DeleteWrite(r)
  BY <1>0, <1>7 DEF DeleteFind, PutWrite, DeleteWrite, Goto, Done, After
<1>8. \A y \in Going : "done" \in After[y]
  BY DEF Going, After
<1> QED
  BY <1>0, <1>1, <1>2, <1>3, <1>4, <1>5, <1>6, <1>7, <1>8 DEF Handle

LEMMA GoesOn ==
  ASSUME Inv, NEW r \in Reqs, NEW x \in Going, pc[r] = x, [Next]_vars
  PROVE  pc'[r] = x \/ pc'[r] \in After[x]
<1>0. pc \in [Reqs -> PCs]
  BY DEF Inv, Typed
<1>1. ASSUME Handle(r) PROVE pc'[r] \in After[x]
  BY <1>1, HandlingMoves
<1>2. ASSUME NEW q \in Reqs \ {r}, Handle(q) PROVE pc'[r] = pc[r]
  <2>1. pc[q] \in Going
    BY <1>2 DEF Handle, Look, LookFail, AssertGrant, ShowDetail, Send, SendFail, Answer, AnswerFail,
                GivesUp, Audit, DeleteFind, PutWrite, DeleteWrite, WriteFail, Going
  <2> QED
    BY <1>2, <2>1, HandlingMoves
<1>3. ASSUME NEW q \in Reqs, Arrive(q) PROVE pc'[r] = pc[r]
  <2>1. ASSUME NEW step, NEW b, Begin(q, step, b) PROVE pc'[r] = pc[r]
    BY <1>0, <2>1 DEF Begin, Going
  <2> QED
    BY <1>3, <2>1 DEF Arrive, BeginMounted, BeginStart, BeginRefresh, BeginPut, BeginDelete
<1>4. ASSUME NEW q \in Reqs, Take(q) \/ Drop(q) PROVE pc' = pc
  BY <1>4 DEF Take, Drop
<1>5. ASSUME NEW u \in Users, UserDelete(u) PROVE pc' = pc
  BY <1>5 DEF UserDelete, reqVars
<1>6. ASSUME NEW slot \in Slots, NEW s \in Servers \cup {None}, PeerChange(slot, s) PROVE pc' = pc
  BY <1>6 DEF PeerChange
<1>7. ASSUME Restart PROVE pc'[r] \in After[x]
  BY <1>0, <1>7 DEF Restart, After, Going
<1>8. CASE CacheNext \/ UNCHANGED vars
  BY <1>8, Beside
<1> QED
  BY <1>1, <1>2, <1>3, <1>4, <1>5, <1>6, <1>7, <1>8 DEF Next, CacheNext

At(r, x) == pc[r] = x
Begun(r) == pc[r] # "new"
Finished(r) == pc[r] = "done"

LEMMA EndsOne ==
  ASSUME NEW r \in Reqs
  PROVE  FairSpec /\ []NeverStuck => (pc[r] # "new" ~> pc[r] = "done")
<1>1. Inv => (Begun(r) <=> \/ At(r, "look") \/ At(r, "grant") \/ At(r, "send") \/ At(r, "wait")
                           \/ At(r, "find") \/ At(r, "write") \/ At(r, "audit") \/ Finished(r))
  BY DEF Inv, Typed, PCs, Begun, At, Finished
<1>2. Inv /\ [Next]_vars =>
        /\ At(r, "look") => At(r, "look")' \/ At(r, "grant")' \/ Finished(r)'
        /\ At(r, "grant") => At(r, "grant")' \/ At(r, "send")' \/ Finished(r)'
        /\ At(r, "send") => At(r, "send")' \/ At(r, "wait")' \/ Finished(r)'
        /\ At(r, "wait") => At(r, "wait")' \/ At(r, "audit")' \/ Finished(r)'
        /\ At(r, "find") => At(r, "find")' \/ At(r, "write")' \/ Finished(r)'
        /\ At(r, "write") => At(r, "write")' \/ At(r, "audit")' \/ Finished(r)'
        /\ At(r, "audit") => At(r, "audit")' \/ Finished(r)'
  BY GoesOn DEF At, Finished, After, Going
<1>3. Inv /\ <<Handle(r)>>_vars =>
        /\ At(r, "look") => At(r, "grant")' \/ Finished(r)'
        /\ At(r, "grant") => At(r, "send")' \/ Finished(r)'
        /\ At(r, "send") => At(r, "wait")' \/ Finished(r)'
        /\ At(r, "wait") => At(r, "audit")' \/ Finished(r)'
        /\ At(r, "find") => At(r, "write")' \/ Finished(r)'
        /\ At(r, "write") => At(r, "audit")' \/ Finished(r)'
        /\ At(r, "audit") => Finished(r)'
  BY HandlingMoves DEF At, Finished, After, Going
<1>4. NeverStuck /\ Begun(r) /\ ~ Finished(r) => ENABLED <<Handle(r)>>_vars
  BY DEF NeverStuck, Begun, Finished
<1>5. FairSpec => []Inv /\ [][Next]_vars /\ WF_vars(Handle(r))
  <2>1. Fairness => HandlerFair(r)
    BY DEF Fairness
  <2>2. HandlerFair(r) => WF_vars(Handle(r))
    BY PTL DEF HandlerFair
  <2> QED
    BY <2>1, <2>2, InvAlways, PTL DEF Spec, FairSpec
<1>6. FairSpec /\ []NeverStuck => (At(r, "look") ~> At(r, "grant") \/ Finished(r))
  BY <1>1, <1>2, <1>3, <1>4, <1>5, PTL
<1>7. FairSpec /\ []NeverStuck => (At(r, "grant") ~> At(r, "send") \/ Finished(r))
  BY <1>1, <1>2, <1>3, <1>4, <1>5, PTL
<1>8. FairSpec /\ []NeverStuck => (At(r, "send") ~> At(r, "wait") \/ Finished(r))
  BY <1>1, <1>2, <1>3, <1>4, <1>5, PTL
<1>9. FairSpec /\ []NeverStuck => (At(r, "wait") ~> At(r, "audit") \/ Finished(r))
  BY <1>1, <1>2, <1>3, <1>4, <1>5, PTL
<1>10. FairSpec /\ []NeverStuck => (At(r, "find") ~> At(r, "write") \/ Finished(r))
  BY <1>1, <1>2, <1>3, <1>4, <1>5, PTL
<1>11. FairSpec /\ []NeverStuck => (At(r, "write") ~> At(r, "audit") \/ Finished(r))
  BY <1>1, <1>2, <1>3, <1>4, <1>5, PTL
<1>12. FairSpec /\ []NeverStuck => (At(r, "audit") ~> Finished(r))
  BY <1>1, <1>2, <1>3, <1>4, <1>5, PTL
<1>13. FairSpec /\ []NeverStuck => (Begun(r) ~> Finished(r))
  BY <1>1, <1>5, <1>6, <1>7, <1>8, <1>9, <1>10, <1>11, <1>12, PTL
<1>14. (Begun(r) ~> Finished(r)) => (pc[r] # "new" ~> pc[r] = "done")
  BY PTL DEF Begun, Finished
<1> QED
  BY <1>13, <1>14

\* Every request that was begun ends, whatever the peer does with it, if none is
\* ever stuck (client.ts: the timeout of a call).
THEOREM RequestsEnd == FairSpec /\ []NeverStuck => Ends
  BY EndsOne DEF Ends

-----------------------------------------------------------------------------
(* what an invalidation missed is mended *)

\* A fetch that asked before r was carried out; its answer may lack r.
Lacks(f, r) == fetch[f] # None /\ fetch[f].asked /\ r \notin fetch[f].seen
Settled(r) == r \in settled
Shows(k, r) == fed[k] # None => r \in fed[k]
\* Nobody is left to bring back an answer without r.
Clean(r) == r \in settled /\ \A f \in Fetches : ~ Lacks(f, r)

\* A settled action stays settled, and no fetch begins to lack it.
LEMMA SettledStays ==
  ASSUME Inv, CacheInv, NEW r \in Reqs, r \in settled, [Next]_vars
  PROVE  /\ r \in settled'
         /\ \A f \in Fetches : ~ Lacks(f, r) => ~ Lacks(f, r)'
<1>1. r \in taken
  BY DEF CacheInv, Cache
<1>2. CASE UNCHANGED fedVars
  BY <1>2 DEF fedVars, Lacks
<1>3. ASSUME NEW q \in Reqs, Invalidate(q) PROVE /\ r \in settled'
                                                 /\ \A f \in Fetches : ~ Lacks(f, r) => ~ Lacks(f, r)'
  <2>1. ASSUME NEW f \in Fetches
        PROVE  /\ fetch[f] = None => fetch'[f] = None
               /\ fetch[f] # None => fetch'[f] = [fetch[f] EXCEPT !.late = fetch[f].asked]
    BY <1>3 DEF Invalidate
  <2>2. ASSUME NEW f \in Fetches, fetch[f] # None
        PROVE  fetch'[f].seen = fetch[f].seen /\ fetch'[f].asked = fetch[f].asked
    BY <2>1, <2>2 DEF CacheInv, Cache
  <2> QED
    BY <1>3, <2>1, <2>2 DEF Invalidate, Lacks
<1>4. CASE CacheNext
  <2>1. ASSUME NEW g \in Fetches, NEW k \in Keys, FedMiss(g, k)
        PROVE  r \in settled' /\ \A f \in Fetches : ~ Lacks(f, r) => ~ Lacks(f, r)'
    BY <2>1 DEF FedMiss, Lacks, CacheInv, Cache
  <2>2. ASSUME NEW g \in Fetches, FedAsk(g)
        PROVE  r \in settled' /\ \A f \in Fetches : ~ Lacks(f, r) => ~ Lacks(f, r)'
    BY <1>1, <2>2 DEF FedAsk, Lacks, CacheInv, Cache
  <2>3. ASSUME NEW g \in Fetches, FedStore(g) \/ FedFail(g)
        PROVE  r \in settled' /\ \A f \in Fetches : ~ Lacks(f, r) => ~ Lacks(f, r)'
    BY <2>3 DEF FedStore, FedFail, Lacks, CacheInv, Cache
  <2>4. ASSUME NEW k \in Keys, FedExpire(k)
        PROVE  r \in settled' /\ \A f \in Fetches : ~ Lacks(f, r) => ~ Lacks(f, r)'
    BY <2>4 DEF FedExpire, Lacks
  <2> QED
    BY <1>4, <2>1, <2>2, <2>3, <2>4 DEF CacheNext
<1>5. CASE Restart
  BY <1>5 DEF Restart, Lacks
<1> QED
  BY <1>2, <1>3, <1>4, <1>5, Writers DEF vars, Inv, Typed

LEMMA FetchingEnds ==
  ASSUME CacheInv, NEW f \in Fetches, NEW r \in Reqs, Lacks(f, r), Fetching(f)
  PROVE  ~ Lacks(f, r)'
  BY DEF CacheInv, Cache, Lacks, Fetching, FedAsk, FedStore, FedFail

LEMMA FetchEnds ==
  ASSUME NEW f \in Fetches, NEW r \in Reqs
  PROVE  FairSpec /\ []NeverStuck => (Settled(r) ~> []~ Lacks(f, r))
<1>1. Inv /\ CacheInv /\ Settled(r) /\ [Next]_vars => Settled(r)'
  BY SettledStays DEF Settled
<1>2. Inv /\ CacheInv /\ Settled(r) /\ ~ Lacks(f, r) /\ [Next]_vars => ~ Lacks(f, r)'
  BY SettledStays DEF Settled
<1>3. CacheInv /\ Lacks(f, r) /\ <<Fetching(f)>>_vars => ~ Lacks(f, r)'
  BY FetchingEnds
<1>4. NeverStuck /\ Lacks(f, r) => ENABLED <<Fetching(f)>>_vars
  BY DEF NeverStuck, Lacks
<1>5. Fairness => FetchFair(f)
  BY DEF Fairness
<1>6. FetchFair(f) => WF_vars(Fetching(f))
  BY PTL DEF FetchFair
<1> QED
  BY <1>1, <1>2, <1>3, <1>4, <1>5, <1>6, InvAlways, CacheAlways, PTL DEF Spec, FairSpec

\* No fetch in flight when an action is settled keeps an answer without it for
\* ever, and none that is begun later brings one (fleet.ts:73-79).
THEOREM FetchesCatchUp ==
  FairSpec /\ []NeverStuck =>
      \A f \in Fetches, r \in Reqs : Settled(r) ~> []~ Lacks(f, r)
  BY FetchEnds

\* Without such a fetch, an answer that shows r is followed by such answers only.
LEMMA ShowsStays ==
  ASSUME Inv, CacheInv, NEW k \in Keys, NEW r \in Reqs, Clean(r), Shows(k, r), [Next]_vars
  PROVE  Shows(k, r)'
<1>1. CASE UNCHANGED fedVars
  BY <1>1 DEF fedVars, Shows
<1>2. ASSUME NEW q \in Reqs, Invalidate(q) PROVE Shows(k, r)'
  BY <1>2 DEF Invalidate, Shows
<1>3. CASE CacheNext
  <2>1. ASSUME NEW f \in Fetches, FedStore(f) PROVE Shows(k, r)'
    <3>1. fetch[f] # None /\ fetch[f].asked /\ r \in fetch[f].seen
      BY <2>1 DEF FedStore, Clean, Lacks
    <3>2. PICK seen \in SUBSET taken : /\ fetch[f].seen \subseteq seen
                                       /\ fed' = [fed EXCEPT ![fetch[f].key] = seen]
      BY <2>1 DEF FedStore
    <3> QED
      BY <3>1, <3>2 DEF CacheInv, Cache, Shows
  <2>2. ASSUME NEW f \in Fetches, FedAsk(f) \/ FedFail(f) \/ \E j \in Keys : FedMiss(f, j)
        PROVE  Shows(k, r)'
    BY <2>2 DEF FedAsk, FedFail, FedMiss, Shows
  <2>3. ASSUME NEW j \in Keys, FedExpire(j) PROVE Shows(k, r)'
    BY <2>3 DEF FedExpire, Shows, CacheInv, Cache
  <2> QED
    BY <1>3, <2>1, <2>2, <2>3 DEF CacheNext
<1>4. CASE Restart
  BY <1>4 DEF Restart, Shows
<1> QED
  BY <1>1, <1>2, <1>3, <1>4, Writers DEF vars

LEMMA KeyCatchesUp ==
  ASSUME NEW k \in Keys, NEW r \in Reqs
  PROVE  FairSpec /\ []NeverStuck => (Clean(r) ~> []Shows(k, r))
<1>1. Inv /\ CacheInv /\ Clean(r) /\ [Next]_vars => Clean(r)'
  BY SettledStays DEF Clean
<1>2. Inv /\ CacheInv /\ Clean(r) /\ Shows(k, r) /\ [Next]_vars => Shows(k, r)'
  BY ShowsStays
<1>3. CacheInv /\ ~ Shows(k, r) /\ <<FedExpire(k)>>_vars => Shows(k, r)'
  BY DEF FedExpire, Shows, CacheInv, Cache
<1>4. NeverStuck /\ ~ Shows(k, r) => ENABLED <<FedExpire(k)>>_vars
  BY DEF NeverStuck, Shows
<1>5. Fairness => TimeFair(k)
  BY DEF Fairness
<1>6. TimeFair(k) => WF_vars(FedExpire(k))
  BY PTL DEF TimeFair
<1> QED
  BY <1>1, <1>2, <1>3, <1>4, <1>5, <1>6, InvAlways, CacheAlways, PTL DEF Spec, FairSpec

\* Once those fetches are over, every key comes to show the action for good:
\* with FetchesCatchUp, and as fetches and keys are finitely many, CatchesUp.
THEOREM CacheCatchesUp ==
  FairSpec /\ []NeverStuck => \A k \in Keys, r \in Reqs : Clean(r) ~> []Shows(k, r)
  BY KeyCatchesUp
=============================================================================
