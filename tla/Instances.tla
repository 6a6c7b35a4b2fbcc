----------------------------- MODULE Instances -----------------------------
(***************************************************************************)
(* The table mcsm_instances and everything that writes it: the admin       *)
(* endpoints, the LAN scanner and the bootstrap that runs before the       *)
(* server listens.  A job is an admin request, a timer tick of the scanner *)
(* or an admin scan; any number of them overlap, one step per round trip.  *)
(***************************************************************************)
EXTENDS Naturals, FiniteSets

CONSTANTS
    Ids,        \* pool of instance ids (cuids, never reused)
    Bases,      \* instance names before a "-2", "-3"... suffix
    Suffixes,   \* bound: longest run of suffixes uniqueName tries
    Urls,       \* base URLs
    Jobs,       \* what can be in flight at once
    None,       \* absent value
    Bodies,     \* request bodies the admins send
    Hits,       \* mcsm peers the scanner can find on the LAN
    BootEntries \* MCSM_BOOTSTRAP, parsed

Names   == Bases \X (1..Suffixes)   \* <<b, 1>> is b, <<b, i>> is b-i
Body    == [name : Names \cup {None}, url : Urls \cup {None},
            primary : BOOLEAN \cup {None}, enabled : BOOLEAN \cup {None}]
Peer    == [url : Urls, base : Bases]

ASSUME InstancesAssumption ==
    /\ Suffixes \in Nat \ {0}
    /\ None \notin Ids /\ None \notin Names /\ None \notin Urls /\ None \notin BOOLEAN
    /\ None \notin Peer
    /\ Bodies \subseteq Body /\ Hits \subseteq Peer
    /\ BootEntries \subseteq [name : Names, url : Urls]
    /\ \A b, c \in BootEntries : b.name = c.name => b = c

VARIABLES
    rows, name, url, primary, enabled, found,  \* table mcsm_instances
    everId,                                    \* ids handed out so far
    boot,                                      \* bootstrap entries still to apply
    pc, loc                                    \* jobs in flight

table   == <<rows, name, url, primary, enabled, found, everId>>
instVars == <<table, boot, pc, loc>>

Steps == {"idle", "cr_commit", "up_commit", "de_commit",
          "sc_hit", "sc_name", "sc_create", "answer"}
Blank == [id |-> None, body |-> None, hits |-> {}, hit |-> None, nth |-> 1, added |-> FALSE]
Locals == [id : Ids \cup {None}, body : Bodies \cup {None}, hits : SUBSET Hits,
           hit : Hits \cup {None}, nth : 1..Suffixes, added : BOOLEAN]

Init ==
    /\ rows = {} /\ primary = {} /\ enabled = {} /\ found = {} /\ everId = {}
    /\ name = [i \in Ids |-> None] /\ url = [i \in Ids |-> None]
    /\ boot = BootEntries
    /\ pc = [j \in Jobs |-> "idle"] /\ loc = [j \in Jobs |-> Blank]

Goto(j, step, locals) ==
    /\ pc' = [pc EXCEPT ![j] = step]
    /\ loc' = [loc EXCEPT ![j] = locals]
Finish(j) == Goto(j, "idle", Blank)

\* Requests and scans start only once the bootstrap is done.
Start(j, step, locals) ==
    /\ pc[j] = "idle" /\ boot = {}
    /\ Goto(j, step, locals)
    /\ UNCHANGED <<table, boot>>

AnyName(n, S) == TRUE                                          \* mutant
NameFree(n, S) == \A k \in S : name[k] # n
Fresh(i) == i \in Ids \ everId

Insert(i, n, u, isEnabled, isFound) ==
    /\ rows' = rows \cup {i} /\ everId' = everId \cup {i}
    /\ name' = [name EXCEPT ![i] = n]
    /\ url' = [url EXCEPT ![i] = u]
    /\ enabled' = IF isEnabled THEN enabled \cup {i} ELSE enabled
    /\ found' = IF isFound THEN found \cup {i} ELSE found

\* A transaction that fails takes the cleared primary flag back.
AbortHalfway(j) ==                                              \* mutant
    /\ Finish(j)
    /\ primary' = IF pc[j] = "cr_commit" /\ loc[j].body.primary = TRUE THEN {} ELSE primary
    /\ UNCHANGED <<rows, name, url, enabled, found, everId, boot>>
Abort(j) == Finish(j) /\ UNCHANGED <<table, boot>>

AlsoPrimary(i, flag) ==                                         \* mutant
    IF flag = TRUE THEN primary \cup {i} ELSE primary
\* updateMany clears the others, then the row itself is written.
PrimaryAfter(i, flag) ==
    IF flag = TRUE THEN {i} ELSE IF flag = FALSE THEN primary \ {i} ELSE primary

-----------------------------------------------------------------------------
(* POST, PATCH and DELETE /mcsm-instances *)

Complete(b) == b.name # None /\ b.url # None

CreateRead(j, b) ==
    /\ Complete(b)
    /\ NameFree(b.name, rows)
    /\ Start(j, "cr_commit", [Blank EXCEPT !.body = b])

CreateCommit(j, i) ==
    /\ pc[j] = "cr_commit"
    /\ NameFree(loc[j].body.name, rows) /\ Fresh(i)
    /\ Insert(i, loc[j].body.name, loc[j].body.url, loc[j].body.enabled # FALSE, FALSE)
    /\ primary' = PrimaryAfter(i, loc[j].body.primary)
    /\ Goto(j, "answer", loc[j])
    /\ UNCHANGED boot

CreateAbort(j) ==
    /\ pc[j] = "cr_commit" /\ ~ NameFree(loc[j].body.name, rows)
    /\ Abort(j)

PatchRead(j, i, b) ==
    /\ i \in rows
    /\ Start(j, "up_commit", [Blank EXCEPT !.id = i, !.body = b])

PatchValid(j) ==
    /\ loc[j].id \in rows
    /\ loc[j].body.name # None => NameFree(loc[j].body.name, rows \ {loc[j].id})

PatchCommit(j) ==
    /\ pc[j] = "up_commit" /\ PatchValid(j)
    /\ LET i == loc[j].id  b == loc[j].body IN
       /\ name' = IF b.name = None THEN name ELSE [name EXCEPT ![i] = b.name]
       /\ url' = IF b.url = None THEN url ELSE [url EXCEPT ![i] = b.url]
       /\ enabled' = IF b.enabled = TRUE THEN enabled \cup {i}
                     ELSE IF b.enabled = FALSE THEN enabled \ {i} ELSE enabled
       /\ primary' = PrimaryAfter(i, b.primary)
    /\ Goto(j, "answer", loc[j])
    /\ UNCHANGED <<rows, found, everId, boot>>

PatchAbort(j) ==
    /\ pc[j] = "up_commit" /\ ~ PatchValid(j)
    /\ Abort(j)

DeleteRead(j, i) ==
    /\ i \in rows
    /\ Start(j, "de_commit", [Blank EXCEPT !.id = i])

DeleteCommit(j) ==
    /\ pc[j] = "de_commit"
    /\ LET i == loc[j].id IN
       IF i \in rows
       THEN /\ rows' = rows \ {i} /\ primary' = primary \ {i}
            /\ enabled' = enabled \ {i} /\ found' = found \ {i}
            /\ name' = [name EXCEPT ![i] = None] /\ url' = [url EXCEPT ![i] = None]
            /\ Goto(j, "answer", loc[j])
            /\ UNCHANGED <<everId, boot>>
       ELSE Abort(j)   \* P2025

-----------------------------------------------------------------------------
(* recordDiscoveries, for the hits of one scan of the LAN *)

Known(u) == \E k \in rows : url[k] = u
Candidate(j) == <<loc[j].hit.base, loc[j].nth>>

ScanBegin(j, hits) ==
    /\ hits # {}
    /\ Start(j, "sc_hit", [Blank EXCEPT !.hits = hits])

ScanLookup(j, h) ==
    /\ pc[j] = "sc_hit" /\ h \in loc[j].hits
    /\ IF Known(h.url)
       THEN Goto(j, "sc_hit", [loc[j] EXCEPT !.hits = @ \ {h}])
       ELSE Goto(j, "sc_name", [loc[j] EXCEPT !.hits = @ \ {h}, !.hit = h, !.nth = 1])
    /\ UNCHANGED <<table, boot>>

CandidateFree(j) == NameFree(Candidate(j), rows)

ScanName(j) ==
    /\ pc[j] = "sc_name"
    /\ \/ CandidateFree(j) /\ Goto(j, "sc_create", loc[j])
       \/ /\ ~ CandidateFree(j) /\ loc[j].nth < Suffixes
          /\ Goto(j, "sc_name", [loc[j] EXCEPT !.nth = @ + 1])
    /\ UNCHANGED <<table, boot>>

ScanCreate(j, i) ==
    /\ pc[j] = "sc_create"
    /\ NameFree(Candidate(j), rows) /\ Fresh(i)
    /\ Insert(i, Candidate(j), loc[j].hit.url, FALSE, TRUE)
    /\ Goto(j, "sc_hit", [loc[j] EXCEPT !.hit = None, !.added = TRUE])
    /\ UNCHANGED <<primary, boot>>

\* P2002 leaves the loop: the other hits are lost, nothing is invalidated.
ScanAbort(j) ==
    /\ pc[j] = "sc_create" /\ ~ NameFree(Candidate(j), rows)
    /\ Abort(j)

ScanEnd(j) ==
    /\ pc[j] = "sc_hit" /\ loc[j].hits = {}
    /\ IF loc[j].added THEN Goto(j, "answer", loc[j]) ELSE Finish(j)
    /\ UNCHANGED <<table, boot>>

-----------------------------------------------------------------------------
\* invalidateFleet and the response; the fleet cache lives in module Fleet.
Answer(j) ==
    /\ pc[j] = "answer"
    /\ Finish(j)
    /\ UNCHANGED <<table, boot>>

\* mutant of BootUpsert: create, whether or not the name is there
BootCreate(b) ==
    /\ b \in boot /\ boot' = boot \ {b}
    /\ \E i \in Ids : /\ NameFree(b.name, rows) /\ Fresh(i)
                      /\ Insert(i, b.name, b.url, TRUE, FALSE)
    /\ UNCHANGED <<primary, pc, loc>>

\* applyBootstrap: upsert by name, awaited before the server listens.
BootUpsert(b) ==
    /\ b \in boot /\ boot' = boot \ {b}
    /\ \/ \E i \in rows : /\ name[i] = b.name
                          /\ url' = [url EXCEPT ![i] = b.url]
                          /\ UNCHANGED <<rows, name, primary, enabled, found, everId>>
       \/ \E i \in Ids : /\ NameFree(b.name, rows) /\ Fresh(i)
                         /\ Insert(i, b.name, b.url, TRUE, FALSE)
                         /\ UNCHANGED primary
    /\ UNCHANGED <<pc, loc>>

\* bound: only while the id pool can serve the bootstrap.
Restart ==
    /\ Cardinality(Ids \ everId) >= Cardinality(BootEntries)
    /\ pc' = [j \in Jobs |-> "idle"] /\ loc' = [j \in Jobs |-> Blank]
    /\ boot' = BootEntries
    /\ UNCHANGED table

Read(j) ==
    \/ \E b \in Bodies : CreateRead(j, b)
    \/ \E i \in Ids, b \in Bodies : PatchRead(j, i, b)
    \/ \E i \in Ids : DeleteRead(j, i)
    \/ \E hits \in SUBSET Hits : ScanBegin(j, hits)
    \/ \E h \in Hits : ScanLookup(j, h)
    \/ ScanName(j) \/ ScanEnd(j)
    \/ CreateAbort(j) \/ PatchAbort(j) \/ ScanAbort(j)

Write(j) ==
    \/ \E i \in Ids : CreateCommit(j, i) \/ ScanCreate(j, i)
    \/ PatchCommit(j) \/ DeleteCommit(j)

Next ==
    \/ \E j \in Jobs : Read(j) \/ Write(j) \/ Answer(j)
    \/ \E b \in BootEntries : BootUpsert(b)
    \/ Restart

Spec == Init /\ [][Next]_instVars

-----------------------------------------------------------------------------
TypeOK ==
    /\ rows \subseteq everId /\ everId \subseteq Ids
    /\ name \in [Ids -> Names \cup {None}] /\ url \in [Ids -> Urls \cup {None}]
    /\ \A i \in rows : name[i] # None /\ url[i] # None
    /\ primary \subseteq rows /\ enabled \subseteq rows /\ found \subseteq rows
    /\ boot \subseteq BootEntries
    /\ pc \in [Jobs -> Steps] /\ loc \in [Jobs -> Locals]

\* mcsm-instances.ts:55,85: promoting one instance demotes the others in the
\* same transaction, so overlapping promotions never leave two primaries.
AtMostOnePrimary == \A i, k \in primary : i = k

\* The primary is given up only by a request that asks for exactly that: a
\* promotion that fails (name taken, target deleted) leaves the old one in place.
PrimaryKept ==
    [][primary # {} /\ primary' = {} =>
         \E j \in Jobs : /\ loc[j].id \in primary
                         /\ \/ pc[j] = "de_commit"
                            \/ pc[j] = "up_commit" /\ loc[j].body.primary = FALSE]_instVars

\* Names stay unique although every writer checks them in an earlier round trip.
UniqueNames == \A i, k \in rows : name[i] = name[k] => i = k
=============================================================================
