------------------------------- MODULE Fleet -------------------------------
(***************************************************************************)
(* The in-memory fleet in front of mcsm_instances (fleet.ts): every call   *)
(* that needs a mcsm awaits sync(), which reloads the cache when it is     *)
(* older than the TTL, invalidated or empty; the probe timer forces a      *)
(* reload.  The calls run beside the jobs of Instances.                    *)
(***************************************************************************)
EXTENDS Instances

CONSTANTS
    Calls,   \* getClient, getPrimary, listInstances in flight
    Probes   \* probeAll in flight

Gets == Calls \cup Probes

VARIABLES
    cache,     \* instance id -> URL of its client
    primaryId, \* or None
    fresh,     \* lastSync is within the TTL and was not reset to 0
    gpc, got,  \* calls in flight and the rows each has read
    since,     \* history: what the table said since the call began to query
    outdated,  \* history: calls whose rows an invalidation has overtaken
    raced      \* history: the cache was filled from such rows

fleetVars == <<cache, primaryId, fresh, gpc, got, since, outdated, raced>>
vars      == <<instVars, fleetVars>>

\* What the table says about the fleet: findMany({ where: { enabled: true } }).
Truth == [peers |-> [i \in enabled |-> url[i]], flagged |-> primary \cap enabled]
Empty == [peers |-> [i \in {} |-> None], flagged |-> {}]
Truths == {[peers |-> f, flagged |-> p] : f \in UNION {[S -> Urls] : S \in SUBSET Ids},
                                          p \in SUBSET Ids}

FlaggedOnly(t) == IF t.flagged # {} THEN t.flagged ELSE {None}  \* mutant
\* The flagged row, or whatever row comes first when none is flagged.
Primaries(t) ==
    IF t.flagged # {} THEN t.flagged
    ELSE IF DOMAIN t.peers = {} THEN {None} ELSE DOMAIN t.peers

Views(t) == {[peers |-> t.peers, primary |-> p] : p \in Primaries(t)}
View == [peers |-> cache, primary |-> primaryId]

FleetInit ==
    /\ Init
    /\ cache = Empty.peers /\ primaryId = None /\ fresh = FALSE
    /\ gpc = [g \in Gets |-> "idle"] /\ got = [g \in Gets |-> Empty]
    /\ since = [g \in Gets |-> {}] /\ outdated = {} /\ raced = FALSE

-----------------------------------------------------------------------------
\* A call that sync() answers from the cache changes nothing and is not a step.
NeverForced(g) == ~ fresh /\ DOMAIN cache = {}               \* mutant
NeedsQuery(g) == g \in Probes \/ ~ fresh \/ DOMAIN cache = {}

SyncMiss(g) ==
    /\ gpc[g] = "idle" /\ boot = {} /\ NeedsQuery(g)
    /\ gpc' = [gpc EXCEPT ![g] = "query"]
    /\ since' = [since EXCEPT ![g] = {Truth}]
    /\ UNCHANGED <<instVars, cache, primaryId, fresh, got, outdated, raced>>

\* The database answers; the promise resolves later.
SyncQuery(g) ==
    /\ gpc[g] = "query"
    /\ got' = [got EXCEPT ![g] = Truth]
    /\ gpc' = [gpc EXCEPT ![g] = "install"]
    /\ UNCHANGED <<instVars, cache, primaryId, fresh, since, outdated, raced>>

MergedPeers(peers) == [i \in DOMAIN cache \cup DOMAIN peers |->  \* mutant
                         IF i \in DOMAIN peers THEN peers[i] ELSE cache[i]]
\* cache.clear() and one cache.set() per row.
Replaced(peers) == peers

\* From here to lastSync = Date.now() nothing is awaited.
SyncInstall(g) ==
    /\ gpc[g] = "install"
    /\ cache' = Replaced(got[g].peers)
    /\ primaryId' \in Primaries(got[g])
    /\ fresh' = TRUE
    /\ raced' = (g \in outdated)
    /\ outdated' = outdated \ {g}
    /\ gpc' = [gpc EXCEPT ![g] = "idle"]
    /\ got' = [got EXCEPT ![g] = Empty]
    /\ since' = [since EXCEPT ![g] = {}]
    /\ UNCHANGED instVars

\* TTL_MS has passed since the last sync.
Expire ==
    /\ fresh /\ fresh' = FALSE
    /\ UNCHANGED <<instVars, cache, primaryId, gpc, got, since, outdated, raced>>

-----------------------------------------------------------------------------
\* The steps of Instances, and what they do to the cache.
Watch == since' = [g \in Gets |-> IF since[g] = {} THEN {} ELSE since[g] \cup {Truth'}]

NoInvalidate == UNCHANGED fresh                              \* mutant
Invalidate == fresh' = FALSE

Beside == Watch /\ UNCHANGED <<cache, primaryId, fresh, gpc, got, outdated, raced>>

Table == (\E j \in Jobs : Read(j) \/ Write(j)) /\ Beside
Boot == (\E b \in BootEntries : BootUpsert(b)) /\ Beside

AnswerInvalidates(j) ==
    /\ Answer(j)
    /\ Invalidate
    /\ outdated' = outdated \cup {g \in Gets : gpc[g] = "install"}
    /\ UNCHANGED <<cache, primaryId, gpc, got, since, raced>>

FleetRestart ==
    /\ Restart
    /\ cache' = Empty.peers /\ primaryId' = None /\ fresh' = FALSE
    /\ gpc' = [g \in Gets |-> "idle"] /\ got' = [g \in Gets |-> Empty]
    /\ since' = [g \in Gets |-> {}] /\ outdated' = {} /\ raced' = FALSE

Call(g) == SyncMiss(g) \/ SyncQuery(g) \/ SyncInstall(g)

FleetNext ==
    \/ \E g \in Gets : Call(g)
    \/ Expire \/ Table \/ Boot \/ FleetRestart
    \/ \E j \in Jobs : AnswerInvalidates(j)

FleetSpec == FleetInit /\ [][FleetNext]_vars

\* The bootstrap and a started call run on, and the probe timer keeps firing.
BootFair == WF_vars(Boot)
GetFair(g) == WF_vars(SyncQuery(g)) /\ WF_vars(SyncInstall(g))
ProbeFair(g) == WF_vars(SyncMiss(g))
Fairness == /\ BootFair
            /\ \A g \in Gets : GetFair(g)
            /\ \A g \in Probes : ProbeFair(g)
FairSpec == FleetSpec /\ Fairness

-----------------------------------------------------------------------------
FleetTypeOK ==
    /\ TypeOK
    /\ \E S \in SUBSET Ids : cache \in [S -> Urls]
    /\ primaryId \in Ids \cup {None} /\ fresh \in BOOLEAN /\ raced \in BOOLEAN
    /\ gpc \in [Gets -> {"idle", "query", "install"}]
    /\ got \in [Gets -> Truths] /\ since \in [Gets -> SUBSET Truths]
    /\ outdated \subseteq Gets

\* fleet.ts:36: a non-empty fleet always has a primary, and it is one of its
\* peers; getPrimary never answers null for want of a flag.
PrimaryServed == IF DOMAIN cache = {} THEN primaryId = None ELSE primaryId \in DOMAIN cache

\* fleet.ts:66: while the cache counts as fresh and no committed change awaits
\* its invalidation, the cache is what the table says.  The one exception is
\* raced: rows that were read before an invalidation and installed after it.
Coherent ==
    /\ fresh /\ ~ raced /\ \A j \in Jobs : pc[j] # "answer"
    => View \in Views(Truth)

\* The fleet that callers see was in the table while a call was reading it.
Promise == INSTANCE FleetPromise
             WITH Truths <- Truths, Empty <- Empty, Gets <- Gets, Views <- Views,
                  truth <- Truth, window <- since, view <- View
KeepsPromise == Promise!Spec

\* A stale fleet heals: once the table stops changing (and the process does not
\* restart) the forced reload of the probe timer brings the cache to the table's
\* state for good.
Quiet == Truth' = Truth /\ ~ FleetRestart
Heals == <>[][Quiet]_vars => <>[](View \in Views(Truth))

\* What is expected to go on can: an entry of the bootstrap finds its row or an
\* id for a new one (bootstrap.ts:33), and a call that was started is never
\* kept from its next step by requests, scans or other calls (fleet.ts:16-38).
NeverStuck ==
    /\ boot # {} => ENABLED <<Boot>>_vars
    /\ \A g \in Gets : /\ gpc[g] = "query" => ENABLED <<SyncQuery(g)>>_vars
                       /\ gpc[g] = "install" => ENABLED <<SyncInstall(g)>>_vars
    /\ \A g \in Probes : boot = {} /\ gpc[g] = "idle" => ENABLED <<SyncMiss(g)>>_vars
=============================================================================
