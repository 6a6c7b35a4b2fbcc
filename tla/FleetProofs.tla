---------------------------- MODULE FleetProofs ----------------------------
(***************************************************************************)
(* Proofs about Fleet: the cache keeps FleetPromise and is coherent, for   *)
(* every pool of ids, names and URLs, any number of admin requests and     *)
(* scans, and any number of calls that reload the cache.                   *)
(***************************************************************************)
EXTENDS Fleet, InstancesProofs

Pending == \E j \in Jobs : pc[j] = "answer"

\* What holds of the calls in flight.
Window == \A g \in Gets :
    /\ gpc[g] = "idle" <=> since[g] = {}
    /\ gpc[g] # "idle" => Truth \in since[g]
    /\ gpc[g] = "install" => got[g] \in since[g]
Flags == \A g \in Gets : gpc[g] = "install" => got[g].flagged \subseteq DOMAIN got[g].peers
UpToDate == \A g \in Gets : gpc[g] = "install" => g \in outdated \/ Pending \/ got[g] = Truth
BootFirst == boot # {} => ~ fresh /\ \A g \in Gets : gpc[g] = "idle"
Reading == Window /\ Flags /\ UpToDate /\ BootFirst

FleetType ==
    /\ \E S \in SUBSET Ids : cache \in [S -> Urls]
    /\ primaryId \in Ids \cup {None} /\ fresh \in BOOLEAN /\ raced \in BOOLEAN
    /\ gpc \in [Gets -> {"idle", "query", "install"}]
    /\ got \in [Gets -> Truths] /\ since \in [Gets -> SUBSET Truths]
    /\ outdated \subseteq Gets

-----------------------------------------------------------------------------
USE DEF table

LEMMA TruthsIntro ==
  ASSUME NEW S \in SUBSET Ids, NEW f \in [S -> Urls], NEW p \in SUBSET Ids
  PROVE  [peers |-> f, flagged |-> p] \in Truths
<1>1. f \in UNION {[T -> Urls] : T \in SUBSET Ids}
  OBVIOUS
<1> QED
  BY <1>1 DEF Truths

LEMMA TruthType == Safe => Truth \in Truths /\ Truth.flagged \subseteq DOMAIN Truth.peers
<1> SUFFICES ASSUME Safe PROVE Truth \in Truths /\ Truth.flagged \subseteq DOMAIN Truth.peers
  OBVIOUS
<1>1. /\ [i \in enabled |-> url[i]] \in [enabled -> Urls]
      /\ enabled \in SUBSET Ids /\ primary \cap enabled \in SUBSET Ids
  BY DEF Safe, TableOK
<1>2. Truth \in Truths
  BY <1>1, TruthsIntro DEF Truth
<1> QED
  BY <1>2 DEF Truth

LEMMA EmptyType == Empty \in Truths /\ DOMAIN Empty.peers = {} /\ Empty.flagged = {}
<1>1. [i \in {} |-> None] \in [{} -> Urls] /\ {} \in SUBSET Ids
  OBVIOUS
<1> QED
  BY <1>1, TruthsIntro DEF Empty

LEMMA TruthParts ==
  ASSUME NEW t \in Truths
  PROVE  /\ \E S \in SUBSET Ids : t.peers \in [S -> Urls]
         /\ t.flagged \subseteq Ids /\ Primaries(t) \subseteq Ids \cup {None}
  BY DEF Truths, Primaries

\* A step of the table changes what it says about the fleet only if the
\* request or scan that made the change now owes an invalidation; what is owed
\* already stays owed.
LEMMA TableStep ==
  ASSUME Safe, Table
  PROVE  /\ Truth' = Truth \/ Pending'
         /\ Pending => Pending'
         /\ boot' = boot
<1>1. ASSUME NEW j \in Jobs, Read(j) PROVE Truth' = Truth /\ boot' = boot
  BY <1>1 DEF Read, CreateRead, PatchRead, DeleteRead, ScanBegin, ScanLookup, ScanName, ScanEnd,
         CreateAbort, PatchAbort, ScanAbort, Start, Abort, Truth
<1>2. ASSUME NEW j \in Jobs, Read(j) \/ Write(j)
      PROVE  pc[j] # "answer" /\ \A k \in Jobs : k # j => pc'[k] = pc[k]
  <2>1. pc[j] # "answer"
    BY <1>2 DEF Read, CreateRead, PatchRead, DeleteRead, ScanBegin, ScanLookup, ScanName, ScanEnd,
           CreateAbort, PatchAbort, ScanAbort, Start, Write, CreateCommit, PatchCommit,
           DeleteCommit, ScanCreate
  <2>2. \E step, l : Goto(j, step, l)
    BY <1>2 DEF Read, CreateRead, PatchRead, DeleteRead, ScanBegin, ScanLookup, ScanName, ScanEnd,
           CreateAbort, PatchAbort, ScanAbort, Start, Abort, Finish, Write, CreateCommit,
           PatchCommit, DeleteCommit, ScanCreate
  <2> QED
    BY <2>1, <2>2 DEF Goto, Safe, JobsOK
<1>3. ASSUME NEW j \in Jobs, NEW i \in Ids, ScanCreate(j, i) PROVE Truth' = Truth /\ boot' = boot
  BY <1>3 DEF ScanCreate, Insert, Fresh, Truth, Safe, TableOK
<1>4. ASSUME NEW j \in Jobs, (\E i \in Ids : CreateCommit(j, i)) \/ PatchCommit(j) \/ DeleteCommit(j)
      PROVE  (Pending' \/ Truth' = Truth) /\ boot' = boot
  <2>1. Goto(j, "answer", loc[j]) \/ UNCHANGED <<enabled, url, primary>>
    BY <1>4 DEF CreateCommit, PatchCommit, DeleteCommit, Abort
  <2>2. boot' = boot
    BY <1>4 DEF CreateCommit, PatchCommit, DeleteCommit, Abort
  <2> QED
    BY <2>1, <2>2 DEF Goto, Truth, Pending, Safe, JobsOK
<1>5. Pending => Pending'
  BY <1>2 DEF Table, Pending, Safe, JobsOK
<1> QED
  BY <1>1, <1>3, <1>4, <1>5 DEF Table, Write

-----------------------------------------------------------------------------
\* Fleet only watches the table: its steps are steps of Instances or leave it alone.
THEOREM FleetKeepsTable == FleetSpec => Spec
<1>1. FleetInit => Init
  BY DEF FleetInit
<1>2. [FleetNext]_vars => [Next]_instVars
  BY DEF FleetNext, Call, SyncMiss, SyncQuery, SyncInstall, Expire, Table, Boot, FleetRestart,
         AnswerInvalidates, vars, Next
<1> QED
  BY <1>1, <1>2, PTL DEF FleetSpec, Spec

THEOREM FleetSafe == FleetSpec => []Safe
  BY FleetKeepsTable, SafeAlways, PTL

LEMMA FleetTypeInit == FleetInit => FleetType
<1>1. \E S \in SUBSET Ids : Empty.peers \in [S -> Urls]
  BY EmptyType, TruthParts
<1> QED
  BY <1>1, EmptyType DEF FleetInit, FleetType

LEMMA FleetTypeStep == FleetType /\ Safe /\ Safe' /\ [FleetNext]_vars => FleetType'
<1> SUFFICES ASSUME FleetType, Safe, Safe', [FleetNext]_vars PROVE FleetType'
  OBVIOUS
<1>0. Truth \in Truths
  BY TruthType
<1>1. Truth' \in Truths
  <2>1. (Safe => Truth \in Truths)'
    BY TruthType, PTL
  <2> QED
    BY <2>1
<1>2. ASSUME NEW g \in Gets, SyncMiss(g) PROVE FleetType'
  BY <1>0, <1>2 DEF SyncMiss, FleetType
<1>3. ASSUME NEW g \in Gets, SyncQuery(g) PROVE FleetType'
  BY <1>0, <1>3 DEF SyncQuery, FleetType
<1>4. ASSUME NEW g \in Gets, SyncInstall(g) PROVE FleetType'
  <2>1. /\ \E S \in SUBSET Ids : got[g].peers \in [S -> Urls]
        /\ Primaries(got[g]) \subseteq Ids \cup {None}
    BY TruthParts DEF FleetType
  <2> QED
    BY <1>4, <2>1, EmptyType DEF SyncInstall, Replaced, FleetType
<1>5. CASE Expire
  BY <1>5 DEF Expire, FleetType
<1>6. CASE Table \/ Boot
  <2>1. since' \in [Gets -> SUBSET Truths]
    BY <1>1, <1>6 DEF Table, Boot, Beside, Watch, FleetType
  <2> QED
    BY <1>6, <2>1 DEF Table, Boot, Beside, FleetType
<1>7. CASE FleetRestart
  <2>1. \E S \in SUBSET Ids : cache' \in [S -> Urls]
    BY <1>7, EmptyType, TruthParts DEF FleetRestart
  <2> QED
    BY <1>7, <2>1, EmptyType DEF FleetRestart, FleetType
<1>8. ASSUME NEW j \in Jobs, AnswerInvalidates(j) PROVE FleetType'
  BY <1>8 DEF AnswerInvalidates, Invalidate, FleetType
<1>9. CASE UNCHANGED vars
  BY <1>9 DEF vars, fleetVars, FleetType
<1> QED
  BY <1>2, <1>3, <1>4, <1>5, <1>6, <1>7, <1>8, <1>9 DEF FleetNext, Call

LEMMA FleetTypeAlways == FleetSpec => []FleetType
  BY FleetTypeInit, FleetTypeStep, FleetSafe, PTL DEF FleetSpec

\* The cache holds URLs of registered ids, and every call in flight holds rows
\* the table could have had.
THEOREM FleetTypeCorrect == FleetSpec => []FleetTypeOK
<1>1. Safe /\ FleetType => FleetTypeOK
  BY DEF Safe, TableOK, JobsOK, TypeOK, FleetType, FleetTypeOK
<1> QED
  BY <1>1, FleetSafe, FleetTypeAlways, PTL

-----------------------------------------------------------------------------
LEMMA ReadingInit == FleetInit => Reading
  BY DEF FleetInit, Reading, Window, Flags, UpToDate, BootFirst

LEMMA ReadingStep == Reading /\ FleetType /\ Safe /\ [FleetNext]_vars => Reading'
<1> SUFFICES ASSUME Reading, FleetType, Safe, [FleetNext]_vars PROVE Reading'
  OBVIOUS
<1>0. /\ gpc \in [Gets -> {"idle", "query", "install"}]
      /\ got \in [Gets -> Truths] /\ since \in [Gets -> SUBSET Truths]
  BY DEF FleetType
<1>1. UNCHANGED instVars => UNCHANGED <<Truth, Pending, boot>>
  BY DEF instVars, Truth, Pending
<1>2. ASSUME NEW g \in Gets, SyncMiss(g) PROVE Reading'
  BY <1>0, <1>1, <1>2 DEF SyncMiss, Reading, Window, Flags, UpToDate, BootFirst
<1>3. ASSUME NEW g \in Gets, SyncQuery(g) PROVE Reading'
  BY <1>0, <1>1, <1>3, TruthType DEF SyncQuery, Reading, Window, Flags, UpToDate, BootFirst
<1>4. ASSUME NEW g \in Gets, SyncInstall(g) PROVE Reading'
  BY <1>0, <1>1, <1>4 DEF SyncInstall, Reading, Window, Flags, UpToDate, BootFirst
<1>5. CASE Expire
  BY <1>1, <1>5 DEF Expire, Reading, Window, Flags, UpToDate, BootFirst
<1>6. CASE Table
  BY <1>0, <1>6, TableStep
     DEF Table, Beside, Watch, Reading, Window, Flags, UpToDate, BootFirst
<1>7. CASE Boot
  <2>1. boot # {}
    BY <1>7 DEF Boot, BootUpsert
  <2>2. \A g \in Gets : gpc'[g] = "idle" /\ since'[g] = {}
    BY <1>0, <1>7, <2>1 DEF Boot, Beside, Watch, Reading, Window, BootFirst
  <2>3. ~ fresh'
    BY <1>7, <2>1 DEF Boot, Beside, Reading, BootFirst
  <2> QED
    BY <2>2, <2>3 DEF Reading, Window, Flags, UpToDate, BootFirst
<1>8. CASE FleetRestart
  BY <1>8 DEF FleetRestart, Reading, Window, Flags, UpToDate, BootFirst
<1>9. ASSUME NEW j \in Jobs, AnswerInvalidates(j) PROVE Reading'
  <2>1. Truth' = Truth /\ boot' = boot
    BY <1>9 DEF AnswerInvalidates, Answer, Truth
  <2> QED
    BY <1>0, <1>9, <2>1
       DEF AnswerInvalidates, Invalidate, Reading, Window, Flags, UpToDate, BootFirst
<1>10. CASE UNCHANGED vars
  BY <1>1, <1>10 DEF vars, fleetVars, Reading, Window, Flags, UpToDate, BootFirst
<1> QED
  BY <1>2, <1>3, <1>4, <1>5, <1>6, <1>7, <1>8, <1>9, <1>10 DEF FleetNext, Call

LEMMA ReadingAlways == FleetSpec => []Reading
  BY ReadingInit, ReadingStep, FleetTypeAlways, FleetSafe, PTL DEF FleetSpec

-----------------------------------------------------------------------------
\* While the fleet is not empty it has a primary, whatever was flagged,
\* disabled or deleted while the call that filled the cache was reading.
THEOREM PrimaryAlwaysServed == FleetSpec => []PrimaryServed
<1>1. FleetInit => PrimaryServed
  BY EmptyType DEF FleetInit, PrimaryServed
<1>2. PrimaryServed /\ Reading /\ FleetType /\ [FleetNext]_vars => PrimaryServed'
  <2> SUFFICES ASSUME PrimaryServed, Reading, FleetType, [FleetNext]_vars PROVE PrimaryServed'
    OBVIOUS
  <2>1. ASSUME NEW g \in Gets, SyncInstall(g) PROVE PrimaryServed'
    BY <2>1 DEF SyncInstall, Replaced, Primaries, PrimaryServed, Reading, Flags
  <2>2. CASE FleetRestart
    BY <2>2, EmptyType DEF FleetRestart, PrimaryServed
  <2>3. CASE UNCHANGED <<cache, primaryId>>
    BY <2>3 DEF PrimaryServed
  <2> QED
    BY <2>1, <2>2, <2>3 DEF FleetNext, Call, SyncMiss, SyncQuery, Expire, Table, Boot, Beside,
       AnswerInvalidates, vars, fleetVars
<1> QED
  BY <1>1, <1>2, ReadingAlways, FleetTypeAlways, PTL DEF FleetSpec

\* A fresh cache is the table's truth unless an invalidation is still owed or
\* overtook the call that filled it.
THEOREM CoherentAlways == FleetSpec => []Coherent
<1>1. FleetInit => Coherent
  BY DEF FleetInit, Coherent
<1>2. Coherent /\ Reading /\ FleetType /\ Safe /\ [FleetNext]_vars => Coherent'
  <2> SUFFICES ASSUME Coherent, Reading, FleetType, Safe, [FleetNext]_vars,
                      fresh', ~ raced', ~ Pending'
               PROVE  (View \in Views(Truth))'
    BY DEF Coherent, Pending
  <2>1. UNCHANGED instVars => UNCHANGED <<Truth, Pending>>
    BY DEF instVars, Truth, Pending
  <2>2. ASSUME NEW g \in Gets, SyncInstall(g) PROVE (View \in Views(Truth))'
    <3>1. Truth' = Truth /\ ~ Pending
      BY <2>2 DEF SyncInstall, instVars, Truth, Pending
    <3>2. g \notin outdated
      BY <2>2 DEF SyncInstall
    <3>3. got[g] = Truth
      BY <2>2, <3>1, <3>2 DEF SyncInstall, Reading, UpToDate
    <3> QED
      BY <2>2, <3>1, <3>3 DEF SyncInstall, Replaced, View, Views
  <2>3. CASE Table
    <3>1. Truth' = Truth /\ ~ Pending
      BY <2>3, TableStep
    <3> QED
      BY <2>3, <3>1 DEF Table, Beside, Coherent, Pending, View
  <2>4. CASE Boot
    BY <2>4 DEF Boot, BootUpsert, Beside, Reading, BootFirst
  <2>5. CASE FleetRestart \/ \E j \in Jobs : AnswerInvalidates(j)
    BY <2>5 DEF FleetRestart, AnswerInvalidates, Invalidate
  <2>6. CASE UNCHANGED <<instVars, cache, primaryId, fresh, raced>>
    BY <2>1, <2>6 DEF Coherent, Pending, View
  <2>7. CASE Expire
    BY <2>7 DEF Expire
  <2> QED
    BY <2>2, <2>3, <2>4, <2>5, <2>6, <2>7 DEF FleetNext, Call, SyncMiss, SyncQuery,
       vars, fleetVars
<1> QED
  BY <1>1, <1>2, ReadingAlways, FleetTypeAlways, FleetSafe, PTL DEF FleetSpec

-----------------------------------------------------------------------------
\* Every step of the cache is a step of FleetPromise or invisible to callers:
\* they only ever see a fleet that was in the table, as a whole, while the call
\* that installed it was reading.
THEOREM PromiseKept == FleetSpec => KeepsPromise
<1>1. FleetInit => Promise!Init
  BY SafeInit, TruthType, EmptyType
     DEF FleetInit, Promise!Init, View, Views, Primaries
<1>2. Reading /\ FleetType /\ Safe /\ Safe' /\ [FleetNext]_vars
      => [Promise!Next]_<<Truth, since, View>>
  <2> SUFFICES ASSUME Reading, FleetType, Safe, Safe', [FleetNext]_vars
               PROVE  Promise!Next \/ UNCHANGED <<Truth, since, View>>
    OBVIOUS
  <2>0. UNCHANGED instVars => UNCHANGED Truth
    BY DEF instVars, Truth
  <2>1. Truth' \in Truths
    <3>1. (Safe => Truth \in Truths)'
      BY TruthType, PTL
    <3> QED
      BY <3>1
  <2>2. ASSUME NEW g \in Gets, SyncMiss(g) PROVE Promise!Begin(g)
    BY <2>0, <2>2 DEF SyncMiss, Promise!Begin, Reading, Window, View
  <2>3. ASSUME NEW g \in Gets, SyncInstall(g) PROVE Promise!Publish(g)
    <3>1. got[g] \in since[g]
      BY <2>3 DEF SyncInstall, Reading, Window
    <3>2. View' \in Views(got[g])
      BY <2>3 DEF SyncInstall, Replaced, View, Views
    <3> QED
      BY <2>0, <2>3, <3>1, <3>2 DEF SyncInstall, Promise!Publish
  <2>4. CASE Table \/ Boot
    BY <2>1, <2>4 DEF Table, Boot, Beside, Watch, Promise!Next, Promise!Change, View
  <2>5. CASE FleetRestart
    <3>1. Truth' = Truth
      BY <2>5 DEF FleetRestart, Restart, Truth
    <3>2. View' \in Views(Empty)
      BY <2>5, EmptyType DEF FleetRestart, View, Views, Primaries
    <3> QED
      BY <2>5, <3>1, <3>2 DEF FleetRestart, Promise!Next, Promise!Forget
  <2>6. ASSUME NEW j \in Jobs, AnswerInvalidates(j) PROVE UNCHANGED <<Truth, since, View>>
    BY <2>6 DEF AnswerInvalidates, Answer, Truth, View
  <2>7. ASSUME (\E g \in Gets : SyncQuery(g)) \/ Expire \/ UNCHANGED vars
        PROVE  UNCHANGED <<Truth, since, View>>
    BY <2>0, <2>7 DEF SyncQuery, Expire, vars, fleetVars, View
  <2> QED
    BY <2>2, <2>3, <2>4, <2>5, <2>6, <2>7 DEF FleetNext, Call, Promise!Next
<1> QED
  BY <1>1, <1>2, ReadingAlways, FleetTypeAlways, FleetSafe, PTL
     DEF FleetSpec, KeepsPromise, Promise!Spec

-----------------------------------------------------------------------------
(* a stale fleet heals *)

\* What the call brings is what the table says now.
UpToNow(g) == gpc[g] = "install" => got[g] = Truth
NothingOld == \A g \in Gets : UpToNow(g)
Healed == View \in Views(Truth)
At(g, x) == gpc[g] = x
Booted == boot = {}

\* In a quiet step, only the call itself takes a call further.
LEMMA QuietStep ==
  ASSUME FleetType, NEW g \in Gets, [FleetNext]_vars, [Quiet]_vars
  PROVE  \/ gpc'[g] = gpc[g] /\ got'[g] = got[g] /\ Truth' = Truth
         \/ SyncMiss(g) \/ SyncQuery(g) \/ SyncInstall(g)
<1>1. ASSUME NEW h \in Gets \ {g}, Call(h) PROVE gpc'[g] = gpc[g] /\ got'[g] = got[g]
  BY <1>1 DEF Call, SyncMiss, SyncQuery, SyncInstall, FleetType
<1>2. ASSUME Table \/ Boot \/ Expire \/ \E j \in Jobs : AnswerInvalidates(j)
      PROVE  gpc' = gpc /\ got' = got
  BY <1>2 DEF Table, Boot, Beside, Expire, AnswerInvalidates
<1>3. CASE UNCHANGED vars
  BY <1>3 DEF vars, instVars, fleetVars, Truth
<1>4. CASE Quiet /\ FleetNext
  BY <1>1, <1>2, <1>4 DEF Quiet, FleetNext, Call
<1> QED
  BY <1>3, <1>4

LEMMA UpToNowStays ==
  ASSUME FleetType, NEW g \in Gets, UpToNow(g), [FleetNext]_vars, [Quiet]_vars
  PROVE  UpToNow(g)'
<1>1. CASE gpc'[g] = gpc[g] /\ got'[g] = got[g] /\ Truth' = Truth
  BY <1>1 DEF UpToNow
<1>2. CASE SyncMiss(g) \/ SyncInstall(g)
  BY <1>2 DEF SyncMiss, SyncInstall, UpToNow, FleetType
<1>3. CASE SyncQuery(g)
  BY <1>3 DEF SyncQuery, UpToNow, FleetType, instVars, Truth
<1> QED
  BY <1>1, <1>2, <1>3, QuietStep

LEMMA OldCallEnds ==
  ASSUME NEW g \in Gets
  PROVE  FairSpec /\ []NeverStuck => (<>[][Quiet]_vars => <>[]UpToNow(g))
<1>1. FleetType /\ UpToNow(g) /\ [FleetNext]_vars /\ [Quiet]_vars => UpToNow(g)'
  BY UpToNowStays
<1>2. FleetType /\ <<SyncInstall(g)>>_vars => UpToNow(g)'
  BY DEF SyncInstall, UpToNow, FleetType
<1>3. NeverStuck /\ ~ UpToNow(g) => ENABLED <<SyncInstall(g)>>_vars
  BY DEF NeverStuck, UpToNow
<1>4. Fairness => GetFair(g)
  BY DEF Fairness
<1>5. GetFair(g) => WF_vars(SyncInstall(g))
  BY PTL DEF GetFair
<1> QED
  BY <1>1, <1>2, <1>3, <1>4, <1>5, FleetTypeAlways, PTL DEF FairSpec, FleetSpec

\* Once the table stops changing, every call that read it before ends, and from
\* then on a call brings what the table says (fleet.ts:16-38).
THEOREM OldCallsEnd ==
  FairSpec /\ []NeverStuck => \A g \in Gets : <>[][Quiet]_vars => <>[]UpToNow(g)
  BY OldCallEnds

LEMMA InstallHeals ==
  ASSUME FleetType, NothingOld, NEW g \in Gets, SyncInstall(g)
  PROVE  Healed'
<1>1. Truth' = Truth /\ got[g] = Truth
  BY DEF SyncInstall, NothingOld, UpToNow, instVars, Truth
<1> QED
  BY <1>1 DEF SyncInstall, Replaced, Healed, View, Views

LEMMA HealedStays ==
  ASSUME FleetType, NothingOld, Healed, [FleetNext]_vars, [Quiet]_vars
  PROVE  Healed'
<1>1. ASSUME NEW g \in Gets, SyncMiss(g) \/ SyncQuery(g) PROVE Healed'
  BY <1>1 DEF SyncMiss, SyncQuery, instVars, Truth, Healed, View
<1>2. ASSUME NEW g \in Gets, SyncInstall(g) PROVE Healed'
  BY <1>2, InstallHeals
<1>3. CASE Table \/ Boot \/ Expire \/ \E j \in Jobs : AnswerInvalidates(j)
  <2>1. UNCHANGED View
    BY <1>3 DEF Table, Boot, Beside, Expire, AnswerInvalidates, View
  <2>2. Truth' = Truth
    BY DEF Quiet, vars, instVars, Truth
  <2> QED
    BY <2>1, <2>2 DEF Healed
<1>4. CASE UNCHANGED vars
  BY <1>4 DEF vars, instVars, fleetVars, Truth, Healed, View
<1> QED
  BY <1>1, <1>2, <1>3, <1>4 DEF Quiet, FleetNext, Call

LEMMA ProbeHeals ==
  ASSUME NEW g \in Probes
  PROVE  FairSpec /\ []NeverStuck /\ <>[]Booted /\ <>[]NothingOld /\ <>[][Quiet]_vars => <>[]Healed
<1>0. g \in Gets
  BY DEF Gets
<1>1. FleetType => At(g, "idle") \/ At(g, "query") \/ At(g, "install")
  BY <1>0 DEF FleetType, At
<1>2. FleetType /\ NothingOld /\ [FleetNext]_vars /\ [Quiet]_vars =>
        /\ Healed => Healed'
        /\ At(g, "idle") => At(g, "idle")' \/ At(g, "query")'
        /\ At(g, "query") => At(g, "query")' \/ At(g, "install")'
        /\ At(g, "install") => At(g, "install")' \/ Healed'
  <2> SUFFICES ASSUME FleetType, NothingOld, [FleetNext]_vars, [Quiet]_vars
               PROVE  /\ Healed => Healed'
                      /\ At(g, "idle") => At(g, "idle")' \/ At(g, "query")'
                      /\ At(g, "query") => At(g, "query")' \/ At(g, "install")'
                      /\ At(g, "install") => At(g, "install")' \/ Healed'
    OBVIOUS
  <2>1. SyncMiss(g) => At(g, "idle") /\ At(g, "query")'
    BY <1>0 DEF SyncMiss, At, FleetType
  <2>2. SyncQuery(g) => At(g, "query") /\ At(g, "install")'
    BY <1>0 DEF SyncQuery, At, FleetType
  <2>3. SyncInstall(g) => At(g, "install") /\ Healed'
    BY <1>0, InstallHeals DEF SyncInstall, At
  <2> QED
    BY <1>0, <2>1, <2>2, <2>3, QuietStep, HealedStays DEF At
<1>3. /\ FleetType /\ <<SyncMiss(g)>>_vars => At(g, "query")'
      /\ FleetType /\ <<SyncQuery(g)>>_vars => At(g, "install")'
      /\ FleetType /\ NothingOld /\ <<SyncInstall(g)>>_vars => Healed'
  BY <1>0, InstallHeals DEF SyncMiss, SyncQuery, At, FleetType
<1>4. NeverStuck /\ Booted /\ At(g, "idle") => ENABLED <<SyncMiss(g)>>_vars
  BY DEF NeverStuck, Booted, At
<1>5. NeverStuck /\ At(g, "query") => ENABLED <<SyncQuery(g)>>_vars
  BY <1>0 DEF NeverStuck, At
<1>6. NeverStuck /\ At(g, "install") => ENABLED <<SyncInstall(g)>>_vars
  BY <1>0 DEF NeverStuck, At
<1>7. FairSpec => WF_vars(SyncMiss(g)) /\ WF_vars(SyncQuery(g)) /\ WF_vars(SyncInstall(g))
  <2>1. Fairness => GetFair(g)
    BY <1>0 DEF Fairness
  <2>2. Fairness => ProbeFair(g)
    BY DEF Fairness
  <2>3. GetFair(g) /\ ProbeFair(g) => WF_vars(SyncMiss(g)) /\ WF_vars(SyncQuery(g)) /\ WF_vars(SyncInstall(g))
    BY PTL DEF GetFair, ProbeFair
  <2> QED
    BY <2>1, <2>2, <2>3, PTL DEF FairSpec
<1>8. FairSpec => []FleetType /\ [][FleetNext]_vars
  BY FleetTypeAlways, PTL DEF FairSpec, FleetSpec
<1> DEFINE Calm == /\ FairSpec /\ []NeverStuck
                   /\ <>[]Booted /\ <>[]NothingOld /\ <>[][Quiet]_vars
<1>9. Calm => <>[](At(g, "install") => <>Healed)
  BY <1>2, <1>3, <1>4, <1>5, <1>6, <1>7, <1>8, PTL
<1>10. Calm => <>[](At(g, "query") => <>At(g, "install"))
  BY <1>2, <1>3, <1>4, <1>5, <1>6, <1>7, <1>8, PTL
<1>11. Calm => <>[](At(g, "idle") => <>At(g, "query"))
  BY <1>2, <1>3, <1>4, <1>5, <1>6, <1>7, <1>8, PTL
<1>12. Calm => <>Healed
  BY <1>1, <1>8, <1>9, <1>10, <1>11, PTL
<1>13. Calm => <>[](Healed => []Healed)
  BY <1>2, <1>8, PTL
<1>14. Calm => []<>Healed
  BY <1>1, <1>8, <1>9, <1>10, <1>11, PTL
<1> QED
  BY <1>13, <1>14, PTL

\* When the bootstrap is over and no call in flight brings old rows, a probe
\* timer alone brings the fleet to the table's state for good (fleet.ts:101-106,
\* index.ts): with OldCallsEnd, and as the calls and the entries of the bootstrap
\* are finitely many, Heals.
THEOREM ProbesHeal ==
  \A g \in Probes :
      FairSpec /\ []NeverStuck /\ <>[]Booted /\ <>[]NothingOld /\ <>[][Quiet]_vars => <>[]Healed
  BY ProbeHeals
=============================================================================
