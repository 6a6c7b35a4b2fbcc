-------------------------- MODULE InstancesProofs --------------------------
(***************************************************************************)
(* Proofs about Instances, for every pool of ids, names and URLs, and any  *)
(* number of jobs in flight.                                               *)
(***************************************************************************)
EXTENDS Instances, TLAPS

\* What a job in flight holds at each of its steps.
InFlight ==
    \A j \in Jobs :
        /\ pc[j] = "cr_commit" => loc[j].body \in Bodies /\ Complete(loc[j].body)
        /\ pc[j] = "up_commit" => loc[j].body \in Bodies /\ loc[j].id \in Ids
        /\ pc[j] = "de_commit" => loc[j].id \in Ids
        /\ pc[j] \in {"sc_name", "sc_create"} => loc[j].hit \in Hits

TableOK ==
    /\ rows \subseteq everId /\ everId \subseteq Ids
    /\ name \in [Ids -> Names \cup {None}] /\ url \in [Ids -> Urls \cup {None}]
    /\ \A i \in rows : name[i] # None /\ url[i] # None
    /\ primary \subseteq rows /\ enabled \subseteq rows /\ found \subseteq rows

JobsOK == /\ pc \in [Jobs -> Steps] /\ loc \in [Jobs -> Locals]
          /\ InFlight

Safe == TableOK /\ JobsOK /\ boot \subseteq BootEntries

LEMMA BlankType == Blank \in Locals
  BY InstancesAssumption DEF Blank, Locals

LEMMA GotoOK ==
  ASSUME JobsOK, NEW j \in Jobs, NEW step \in Steps, NEW l \in Locals, Goto(j, step, l),
         step = "cr_commit" => l.body \in Bodies /\ Complete(l.body),
         step = "up_commit" => l.body \in Bodies /\ l.id \in Ids,
         step = "de_commit" => l.id \in Ids,
         step \in {"sc_name", "sc_create"} => l.hit \in Hits
  PROVE  JobsOK'
  BY DEF Goto, JobsOK, InFlight

LEMMA FinishOK == ASSUME JobsOK, NEW j \in Jobs, Finish(j) PROVE JobsOK'
  BY BlankType, GotoOK DEF Finish, Steps

\* A row that gets a name and a URL leaves the table well formed.
LEMMA InsertOK ==
  ASSUME TableOK, NEW i \in Ids, NEW n \in Names, NEW u \in Urls, NEW e, NEW f, NEW g,
         Insert(i, n, u, e, f), primary' = PrimaryAfter(i, g) \/ primary' = primary
  PROVE  TableOK'
  BY InstancesAssumption DEF TableOK, Insert, PrimaryAfter

-----------------------------------------------------------------------------
USE DEF table

LEMMA SafeInit == Init => Safe
  BY BlankType, InstancesAssumption DEF Init, Safe, TableOK, JobsOK, InFlight, Steps

LEMMA SafeRead == ASSUME Safe, NEW j \in Jobs, Read(j) PROVE Safe'
<1>0. /\ UNCHANGED <<table, boot>> /\ JobsOK /\ loc[j] \in Locals
  BY DEF Safe, JobsOK, Read, CreateRead, PatchRead, DeleteRead, ScanBegin, ScanLookup,
         ScanName, ScanEnd, CreateAbort, PatchAbort, ScanAbort, Start, Abort
<1>1. ASSUME NEW b \in Bodies, CreateRead(j, b) PROVE JobsOK'
  <2>1. [Blank EXCEPT !.body = b] \in Locals
    BY BlankType DEF Locals
  <2> QED
    BY <1>0, <1>1, <2>1, GotoOK DEF CreateRead, Start, Steps, Blank
<1>2. ASSUME NEW i \in Ids, NEW b \in Bodies, PatchRead(j, i, b) PROVE JobsOK'
  <2>1. [Blank EXCEPT !.id = i, !.body = b] \in Locals
    BY BlankType DEF Locals
  <2> QED
    BY <1>0, <1>2, <2>1, GotoOK DEF PatchRead, Start, Steps, Blank
<1>3. ASSUME NEW i \in Ids, DeleteRead(j, i) PROVE JobsOK'
  <2>1. [Blank EXCEPT !.id = i] \in Locals
    BY BlankType DEF Locals
  <2> QED
    BY <1>0, <1>3, <2>1, GotoOK DEF DeleteRead, Start, Steps, Blank
<1>4. ASSUME NEW hits \in SUBSET Hits, ScanBegin(j, hits) PROVE JobsOK'
  <2>1. [Blank EXCEPT !.hits = hits] \in Locals
    BY BlankType DEF Locals
  <2> QED
    BY <1>0, <1>4, <2>1, GotoOK DEF ScanBegin, Start, Steps
<1>5. ASSUME NEW h \in Hits, ScanLookup(j, h) PROVE JobsOK'
  <2> DEFINE skip == [loc[j] EXCEPT !.hits = @ \ {h}]
             take == [loc[j] EXCEPT !.hits = @ \ {h}, !.hit = h, !.nth = 1]
  <2>1. skip \in Locals
    BY <1>0 DEF Locals
  <2>2. 1 \in 1..Suffixes
    BY InstancesAssumption
  <2>3. take \in Locals /\ take.hit = h
    BY <1>0, <2>2 DEF Locals
  <2>4. Goto(j, "sc_hit", skip) \/ Goto(j, "sc_name", take)
    BY <1>5 DEF ScanLookup
  <2> HIDE DEF skip, take
  <2> QED
    BY <1>0, <2>1, <2>3, <2>4, GotoOK DEF Steps
<1>6. ASSUME ScanName(j) PROVE JobsOK'
  <2>1. loc[j].hit \in Hits
    BY <1>0, <1>6 DEF ScanName, JobsOK, InFlight
  <2>2. ASSUME loc[j].nth < Suffixes
        PROVE  /\ [loc[j] EXCEPT !.nth = @ + 1] \in Locals
               /\ [loc[j] EXCEPT !.nth = @ + 1].hit \in Hits
    BY <1>0, <2>1, <2>2, InstancesAssumption DEF Locals
  <2> QED
    BY <1>0, <1>6, <2>1, <2>2, GotoOK DEF ScanName, Steps
<1>7. ASSUME ScanEnd(j) PROVE JobsOK'
  BY <1>0, <1>7, GotoOK, FinishOK DEF ScanEnd, Steps
<1>8. ASSUME CreateAbort(j) \/ PatchAbort(j) \/ ScanAbort(j) PROVE JobsOK'
  BY <1>0, <1>8, FinishOK DEF CreateAbort, PatchAbort, ScanAbort, Abort
<1> QED
  BY <1>0, <1>1, <1>2, <1>3, <1>4, <1>5, <1>6, <1>7, <1>8 DEF Read, Safe, TableOK

LEMMA SafeWrite == ASSUME Safe, NEW j \in Jobs, Write(j) PROVE Safe'
<1>0. JobsOK /\ TableOK /\ loc[j] \in Locals /\ boot' = boot
  BY DEF Safe, JobsOK, Write, CreateCommit, PatchCommit, DeleteCommit, ScanCreate, Abort
<1>1. ASSUME NEW i \in Ids, CreateCommit(j, i) PROVE TableOK' /\ JobsOK'
  <2>1. loc[j].body.name \in Names /\ loc[j].body.url \in Urls
    BY <1>0, <1>1, InstancesAssumption DEF CreateCommit, JobsOK, InFlight, Complete, Body
  <2> QED
    BY <1>0, <1>1, <2>1, InsertOK, GotoOK DEF CreateCommit, Steps
<1>2. ASSUME NEW i \in Ids, ScanCreate(j, i) PROVE TableOK' /\ JobsOK'
  <2>1. Candidate(j) \in Names /\ loc[j].hit.url \in Urls
    BY <1>0, <1>2, InstancesAssumption
       DEF ScanCreate, JobsOK, InFlight, Candidate, Names, Peer, Locals
  <2>2. [loc[j] EXCEPT !.hit = None, !.added = TRUE] \in Locals
    BY <1>0 DEF Locals
  <2> QED
    BY <1>0, <1>2, <2>1, <2>2, InsertOK, GotoOK DEF ScanCreate, Steps
<1>3. ASSUME PatchCommit(j) PROVE TableOK' /\ JobsOK'
  <2>1. loc[j].body \in Body /\ loc[j].id \in rows
    BY <1>0, <1>3, InstancesAssumption DEF PatchCommit, PatchValid, JobsOK, InFlight
  <2>2. TableOK'
    BY <1>0, <1>3, <2>1, InstancesAssumption DEF PatchCommit, TableOK, PrimaryAfter, Body
  <2> QED
    BY <1>0, <1>3, <2>2, GotoOK DEF PatchCommit, Steps
<1>4. ASSUME DeleteCommit(j) PROVE TableOK' /\ JobsOK'
  <2>1. TableOK'
    BY <1>0, <1>4 DEF DeleteCommit, TableOK, Abort
  <2> QED
    BY <1>0, <1>4, <2>1, GotoOK, FinishOK DEF DeleteCommit, Steps, Abort
<1> QED
  BY <1>0, <1>1, <1>2, <1>3, <1>4 DEF Write, Safe

LEMMA SafeStep == Safe /\ [Next]_instVars => Safe'
<1> SUFFICES ASSUME Safe, [Next]_instVars PROVE Safe'
  OBVIOUS
<1>1. ASSUME NEW j \in Jobs, Answer(j) PROVE Safe'
  BY <1>1, FinishOK DEF Answer, Safe, TableOK
<1>2. ASSUME NEW b \in BootEntries, BootUpsert(b) PROVE Safe'
  <2>1. b.name \in Names /\ b.url \in Urls
    BY InstancesAssumption
  <2>2. TableOK'
    <3>1. ASSUME NEW i \in rows, url' = [url EXCEPT ![i] = b.url],
                 UNCHANGED <<rows, name, primary, enabled, found, everId>>
          PROVE  TableOK'
      BY <2>1, <3>1, InstancesAssumption DEF Safe, TableOK
    <3>2. ASSUME NEW i \in Ids, Insert(i, b.name, b.url, TRUE, FALSE), UNCHANGED primary
          PROVE  TableOK'
      BY <2>1, <3>2, InsertOK DEF Safe
    <3> QED
      BY <1>2, <3>1, <3>2 DEF BootUpsert
  <2> QED
    BY <1>2, <2>2 DEF BootUpsert, Safe, JobsOK, InFlight
<1>3. CASE Restart
  BY <1>3, BlankType DEF Restart, Safe, TableOK, JobsOK, InFlight, Steps
<1>4. CASE UNCHANGED instVars
  BY <1>4 DEF instVars, Safe, TableOK, JobsOK, InFlight
<1> QED
  BY <1>1, <1>2, <1>3, <1>4, SafeRead, SafeWrite DEF Next

\* The strengthened invariant: the table is well formed and every job holds
\* what its next step needs.
THEOREM SafeAlways == Spec => []Safe
  BY SafeInit, SafeStep, PTL DEF Spec

\* The table and the jobs stay well formed: every row has a name and a URL and
\* only rows are flagged, whatever was deleted since a job read it.
THEOREM TypeCorrect == Spec => []TypeOK
<1>1. Safe => TypeOK
  BY DEF Safe, TableOK, JobsOK, TypeOK
<1> QED
  BY <1>1, SafeAlways, PTL

-----------------------------------------------------------------------------
\* Every step leaves the primary flags alone, gives them to one instance, or
\* takes them from the target of the request it commits.
LEMMA PrimaryStep ==
  ASSUME Safe, [Next]_instVars
  PROVE  \/ primary' = primary
         \/ \E i \in Ids : primary' = {i}
         \/ \E j \in Jobs : /\ primary' = primary \ {loc[j].id}
                            /\ \/ pc[j] = "de_commit"
                               \/ pc[j] = "up_commit" /\ loc[j].body.primary = FALSE
<1>1. ASSUME NEW j \in Jobs, NEW i \in Ids, CreateCommit(j, i)
      PROVE  primary' = primary \/ primary' = {i}
  BY <1>1 DEF CreateCommit, PrimaryAfter, Fresh, Safe, TableOK
<1>2. ASSUME NEW j \in Jobs, PatchCommit(j)
      PROVE  \/ primary' = primary
             \/ primary' = {loc[j].id} /\ loc[j].id \in Ids
             \/ /\ primary' = primary \ {loc[j].id}
                /\ pc[j] = "up_commit" /\ loc[j].body.primary = FALSE
  BY <1>2 DEF PatchCommit, PrimaryAfter, Safe, JobsOK, InFlight
<1>3. ASSUME NEW j \in Jobs, DeleteCommit(j)
      PROVE  \/ primary' = primary
             \/ primary' = primary \ {loc[j].id} /\ pc[j] = "de_commit"
  BY <1>3 DEF DeleteCommit, Abort
<1>4. ASSUME NEW j \in Jobs, Read(j) \/ Answer(j) PROVE primary' = primary
  BY <1>4 DEF Read, Answer, CreateRead, PatchRead, DeleteRead, ScanBegin, ScanLookup,
         ScanName, ScanEnd, CreateAbort, PatchAbort, ScanAbort, Start, Abort
<1>5. ASSUME NEW j \in Jobs, NEW i \in Ids, ScanCreate(j, i) PROVE primary' = primary
  BY <1>5 DEF ScanCreate
<1>6. ASSUME NEW b \in BootEntries, BootUpsert(b) PROVE primary' = primary
  BY <1>6 DEF BootUpsert
<1>7. CASE Restart
  BY <1>7 DEF Restart
<1>8. CASE UNCHANGED instVars
  BY <1>8 DEF instVars
<1>9. ASSUME NEW j \in Jobs, Write(j)
      PROVE  \/ primary' = primary
             \/ \E i \in Ids : primary' = {i}
             \/ /\ primary' = primary \ {loc[j].id}
                /\ \/ pc[j] = "de_commit"
                   \/ pc[j] = "up_commit" /\ loc[j].body.primary = FALSE
  BY <1>9, <1>1, <1>2, <1>3, <1>5 DEF Write
<1> QED
  BY <1>4, <1>6, <1>7, <1>8, <1>9 DEF Next

\* However promotions, creations, deletions, scans and restarts overlap, at
\* most one instance is primary.
THEOREM OnePrimary == Spec => []AtMostOnePrimary
<1>1. Init => AtMostOnePrimary
  BY DEF Init, AtMostOnePrimary
<1>2. Safe /\ AtMostOnePrimary /\ [Next]_instVars => AtMostOnePrimary'
  <2> SUFFICES ASSUME Safe, AtMostOnePrimary, [Next]_instVars PROVE AtMostOnePrimary'
    OBVIOUS
  <2> QED
    BY PrimaryStep DEF AtMostOnePrimary
<1> QED
  BY <1>1, <1>2, SafeAlways, PTL DEF Spec

\* The primary is only ever lost to a committed request that asked for it.
THEOREM PrimaryKeptHolds == Spec => PrimaryKept
<1>1. ASSUME Safe, [Next]_instVars, primary # {}, primary' = {}
      PROVE  \E j \in Jobs : /\ loc[j].id \in primary
                             /\ \/ pc[j] = "de_commit"
                                \/ pc[j] = "up_commit" /\ loc[j].body.primary = FALSE
  <2>1. PICK j \in Jobs : /\ primary' = primary \ {loc[j].id}
                          /\ \/ pc[j] = "de_commit"
                             \/ pc[j] = "up_commit" /\ loc[j].body.primary = FALSE
    BY <1>1, PrimaryStep
  <2>2. loc[j].id \in primary
    BY <1>1, <2>1
  <2> QED
    BY <2>1, <2>2
<1> DEFINE Asked == \E j \in Jobs : /\ loc[j].id \in primary
                                    /\ \/ pc[j] = "de_commit"
                                       \/ pc[j] = "up_commit" /\ loc[j].body.primary = FALSE
<1>2. Safe /\ [Next]_instVars => [primary # {} /\ primary' = {} => Asked]_instVars
  BY <1>1
<1> QED
  BY <1>2, SafeAlways, PTL DEF Spec, PrimaryKept

\* A name that is taken is not given twice, although every writer looked it up
\* in an earlier round trip.
THEOREM NamesUnique == Spec => []UniqueNames
<1>1. Init => UniqueNames
  BY DEF Init, UniqueNames
<1>2. ASSUME Safe, UniqueNames, NEW i \in Ids, NEW n, NEW u, NEW e, NEW f,
             Fresh(i), NameFree(n, rows), Insert(i, n, u, e, f)
      PROVE  UniqueNames'
  BY <1>2 DEF Safe, TableOK, Fresh, NameFree, Insert, UniqueNames
<1>3. ASSUME Safe, UniqueNames, UNCHANGED <<rows, name>> PROVE UniqueNames'
  BY <1>3 DEF UniqueNames
<1>4. ASSUME Safe, UniqueNames, [Next]_instVars PROVE UniqueNames'
  <2>1. ASSUME NEW j \in Jobs, Read(j) \/ Answer(j) PROVE UNCHANGED <<rows, name>>
    BY <2>1 DEF Read, Answer, CreateRead, PatchRead, DeleteRead, ScanBegin, ScanLookup,
           ScanName, ScanEnd, CreateAbort, PatchAbort, ScanAbort, Start, Abort
  <2>2. ASSUME NEW j \in Jobs, NEW i \in Ids, CreateCommit(j, i) \/ ScanCreate(j, i)
        PROVE  UniqueNames'
    BY <1>2, <1>4, <2>2 DEF CreateCommit, ScanCreate
  <2>3. ASSUME NEW j \in Jobs, PatchCommit(j) PROVE UniqueNames'
    BY <1>4, <2>3 DEF PatchCommit, PatchValid, NameFree, Safe, TableOK, UniqueNames
  <2>4. ASSUME NEW j \in Jobs, DeleteCommit(j) PROVE UniqueNames'
    BY <1>4, <2>4 DEF DeleteCommit, Abort, Safe, TableOK, UniqueNames
  <2>5. ASSUME NEW b \in BootEntries, BootUpsert(b) PROVE UniqueNames'
    BY <1>2, <1>3, <1>4, <2>5 DEF BootUpsert
  <2>6. CASE Restart
    BY <1>3, <1>4, <2>6 DEF Restart
  <2>7. CASE UNCHANGED instVars
    BY <1>3, <1>4, <2>7 DEF instVars
  <2> QED
    BY <1>3, <1>4, <2>1, <2>2, <2>3, <2>4, <2>5, <2>6, <2>7 DEF Next, Write
<1> QED
  BY <1>1, <1>4, SafeAlways, PTL DEF Spec
-----------------------------------------------------------------------------
(* a scan records a peer once *)

Looking(j) == pc[j] \in {"sc_name", "sc_create"}

\* Job k is about to give a row the URL u.
Gives(k, u) ==
    \/ pc[k] \in {"cr_commit", "up_commit"} /\ loc[k].body.url = u
    \/ pc[k] = "sc_create" /\ loc[k].hit.url = u

\* While a scan stands between the look-up of a peer and its insert, no other
\* job is about to write that URL.
ScansAlone == \A j, k \in Jobs : j # k /\ Looking(j) => ~ Gives(k, loc[j].hit.url)

\* Every row a scan adds has a URL no row had before.
ScansAddUnknown == [][\A i \in found' \ found : \A k \in rows : url[k] # url'[i]]_instVars

Unrecorded == \A j \in Jobs : Looking(j) => ~ Known(loc[j].hit.url)
BootAlone == boot # {} => \A j \in Jobs : pc[j] = "idle"

LEMMA BootAloneStep == Safe /\ BootAlone /\ [Next]_instVars => BootAlone'
<1> SUFFICES ASSUME Safe, BootAlone, [Next]_instVars PROVE BootAlone'
  OBVIOUS
<1>1. ASSUME NEW j \in Jobs, Read(j) PROVE boot = {} /\ boot' = boot
  BY <1>1 DEF BootAlone, Read, CreateRead, PatchRead, DeleteRead, ScanBegin, ScanLookup,
         ScanName, ScanEnd, CreateAbort, PatchAbort, ScanAbort, Start, Abort
<1>2. ASSUME NEW j \in Jobs, Write(j) \/ Answer(j) PROVE boot = {} /\ boot' = boot
  BY <1>2 DEF BootAlone, Write, Answer, CreateCommit, ScanCreate, PatchCommit, DeleteCommit, Abort
<1>3. ASSUME NEW b \in BootEntries, BootUpsert(b) PROVE boot # {} /\ pc' = pc
  BY <1>3 DEF BootUpsert
<1>4. CASE Restart
  BY <1>4 DEF Restart, BootAlone
<1>5. CASE UNCHANGED instVars
  BY <1>5 DEF instVars, BootAlone
<1> QED
  BY <1>1, <1>2, <1>3, <1>4, <1>5 DEF Next, BootAlone

\* A step of job k leaves what the other scans hold.
LEMMA OthersStay ==
  ASSUME Safe, NEW k \in Jobs, NEW step, NEW l, Goto(k, step, l), NEW j \in Jobs, j # k
  PROVE  pc'[j] = pc[j] /\ loc'[j] = loc[j]
  BY DEF Safe, JobsOK, Goto

\* A step of job k that gives no row the URL another scan looks for, and takes
\* up only a peer no row knows.
LEMMA UnrecordedGoto ==
  ASSUME Safe, Unrecorded, NEW k \in Jobs, NEW step, NEW l, Goto(k, step, l),
         \A j \in Jobs \ {k}, i \in rows' :
             Looking(j) /\ url'[i] = loc[j].hit.url => Known(loc[j].hit.url),
         step \in {"sc_name", "sc_create"} => \A i \in rows' : url'[i] # l.hit.url
  PROVE  Unrecorded'
<1>1. pc'[k] = step /\ loc'[k] = l
  BY DEF Safe, JobsOK, Goto
<1> QED
  BY <1>1, OthersStay DEF Unrecorded, Looking, Known

LEMMA UnrecordedFinish ==
  ASSUME Safe, Unrecorded, NEW k \in Jobs, Finish(k), rows' \subseteq rows,
         \A i \in rows' : url'[i] = url[i]
  PROVE  Unrecorded'
  BY UnrecordedGoto DEF Finish, Known

LEMMA UnrecordedRead ==
  ASSUME Safe, Unrecorded, NEW j \in Jobs, Read(j) \/ Answer(j)
  PROVE  Unrecorded'
<1>0. UNCHANGED <<rows, url>>
  BY DEF Read, Answer, CreateRead, PatchRead, DeleteRead, ScanBegin, ScanLookup,
         ScanName, ScanEnd, CreateAbort, PatchAbort, ScanAbort, Start, Abort
<1>1. ASSUME NEW step, NEW l, Goto(j, step, l), step \notin {"sc_name", "sc_create"}
      PROVE  Unrecorded'
  BY <1>0, <1>1, UnrecordedGoto DEF Known
<1>2. ASSUME NEW h \in Hits, ScanLookup(j, h) PROVE Unrecorded'
  <2> DEFINE skip == [loc[j] EXCEPT !.hits = @ \ {h}]
             take == [loc[j] EXCEPT !.hits = @ \ {h}, !.hit = h, !.nth = 1]
  <2>1. \/ Goto(j, "sc_hit", skip)
        \/ ~ Known(h.url) /\ Goto(j, "sc_name", take)
    BY <1>2 DEF ScanLookup
  <2>2. take.hit = h
    BY DEF Safe, JobsOK, Locals
  <2> HIDE DEF skip, take
  <2>3. ASSUME ~ Known(h.url), Goto(j, "sc_name", take) PROVE Unrecorded'
    BY <1>0, <2>2, <2>3, UnrecordedGoto DEF Known
  <2> QED
    BY <1>1, <2>1, <2>3
<1>3. ASSUME ScanName(j) PROVE Unrecorded'
  <2> DEFINE next == [loc[j] EXCEPT !.nth = @ + 1]
  <2>1. next.hit = loc[j].hit /\ ~ Known(loc[j].hit.url)
    BY <1>3 DEF ScanName, Safe, JobsOK, Locals, Unrecorded, Looking
  <2>2. Goto(j, "sc_create", loc[j]) \/ Goto(j, "sc_name", next)
    BY <1>3 DEF ScanName
  <2> HIDE DEF next
  <2> QED
    BY <1>0, <2>1, <2>2, UnrecordedGoto DEF Known
<1>4. ASSUME NEW i \in Ids, NEW b \in Bodies, PatchRead(j, i, b) PROVE Unrecorded'
  BY <1>1, <1>4 DEF PatchRead, Start
<1>5. CASE CreateAbort(j) \/ PatchAbort(j) \/ ScanAbort(j) \/ ScanEnd(j) \/ Answer(j)
  BY <1>1, <1>5 DEF CreateAbort, PatchAbort, ScanAbort, ScanEnd, Answer, Abort, Finish
<1>6. ASSUME NEW b \in Bodies, CreateRead(j, b) PROVE Unrecorded'
  BY <1>1, <1>6 DEF CreateRead, Start
<1>7. ASSUME NEW hits \in SUBSET Hits, ScanBegin(j, hits) PROVE Unrecorded'
  BY <1>1, <1>7 DEF ScanBegin, Start
<1>8. ASSUME NEW i \in Ids, DeleteRead(j, i) PROVE Unrecorded'
  BY <1>1, <1>8 DEF DeleteRead, Start
<1> QED
  BY <1>2, <1>3, <1>4, <1>5, <1>6, <1>7, <1>8 DEF Read

LEMMA UnrecordedWrite ==
  ASSUME Safe, ScansAlone, Unrecorded, NEW k \in Jobs, Write(k)
  PROVE  Unrecorded'
<1>1. ASSUME NEW i \in Ids, CreateCommit(k, i) PROVE Unrecorded'
  <2>1. \A j \in Jobs \ {k} : Looking(j) => loc[k].body.url # loc[j].hit.url
    BY <1>1 DEF CreateCommit, ScansAlone, Gives
  <2>2. /\ rows' = rows \cup {i} /\ url' = [url EXCEPT ![i] = loc[k].body.url]
        /\ Goto(k, "answer", loc[k]) /\ url \in [Ids -> Urls \cup {None}]
    BY <1>1 DEF CreateCommit, Insert, Safe, TableOK
  <2> QED
    BY <2>1, <2>2, UnrecordedGoto DEF Safe, TableOK, Known
<1>2. ASSUME NEW i \in Ids, ScanCreate(k, i) PROVE Unrecorded'
  <2> DEFINE next == [loc[k] EXCEPT !.hit = None, !.added = TRUE]
  <2>1. \A j \in Jobs \ {k} : Looking(j) => loc[k].hit.url # loc[j].hit.url
    BY <1>2 DEF ScanCreate, ScansAlone, Gives
  <2>2. /\ rows' = rows \cup {i} /\ url' = [url EXCEPT ![i] = loc[k].hit.url]
        /\ Goto(k, "sc_hit", next) /\ url \in [Ids -> Urls \cup {None}]
    BY <1>2 DEF ScanCreate, Insert, Safe, TableOK
  <2> HIDE DEF next
  <2> QED
    BY <2>1, <2>2, UnrecordedGoto DEF Safe, TableOK, Known
<1>3. ASSUME PatchCommit(k) PROVE Unrecorded'
  <2> DEFINE i == loc[k].id
             u == loc[k].body.url
  <2>1. \A j \in Jobs \ {k} : Looking(j) => u # loc[j].hit.url
    BY <1>3 DEF PatchCommit, ScansAlone, Gives
  <2>2. /\ rows' = rows /\ (url' = url \/ url' = [url EXCEPT ![i] = u])
        /\ Goto(k, "answer", loc[k]) /\ url \in [Ids -> Urls \cup {None}]
        /\ rows \subseteq Ids
    BY <1>3 DEF PatchCommit, Safe, TableOK
  <2> HIDE DEF i, u
  <2> QED
    BY <2>1, <2>2, UnrecordedGoto DEF Known
<1>4. ASSUME DeleteCommit(k) PROVE Unrecorded'
  <2>1. /\ rows' \subseteq rows /\ \A i \in rows' : url'[i] = url[i]
        /\ Goto(k, "answer", loc[k]) \/ Finish(k)
    BY <1>4 DEF DeleteCommit, Abort, Safe, TableOK
  <2> QED
    BY <2>1, UnrecordedFinish, UnrecordedGoto DEF Known
<1> QED
  BY <1>1, <1>2, <1>3, <1>4 DEF Write

LEMMA UnrecordedStep == Safe /\ BootAlone /\ ScansAlone /\ Unrecorded /\ [Next]_instVars => Unrecorded'
<1> SUFFICES ASSUME Safe, BootAlone, ScansAlone, Unrecorded, [Next]_instVars PROVE Unrecorded'
  OBVIOUS
<1>1. ASSUME NEW b \in BootEntries, BootUpsert(b) PROVE Unrecorded'
  BY <1>1 DEF BootUpsert, BootAlone, Unrecorded, Looking
<1>2. CASE Restart
  BY <1>2 DEF Restart, Unrecorded, Looking
<1>3. CASE UNCHANGED instVars
  BY <1>3 DEF instVars, Unrecorded, Looking, Known
<1> QED
  BY <1>1, <1>2, <1>3, UnrecordedRead, UnrecordedWrite DEF Next

\* Only a scan's insert marks a row as discovered.
LEMMA FoundStep ==
  ASSUME Safe, Unrecorded, [Next]_instVars, NEW i \in found', i \notin found, NEW k \in rows
  PROVE  url[k] # url'[i]
<1>1. ASSUME NEW j \in Jobs, Read(j) \/ Answer(j) PROVE found' = found
  BY <1>1 DEF Read, Answer, CreateRead, PatchRead, DeleteRead, ScanBegin, ScanLookup,
         ScanName, ScanEnd, CreateAbort, PatchAbort, ScanAbort, Start, Abort
<1>2. ASSUME NEW j \in Jobs, PatchCommit(j) \/ DeleteCommit(j) PROVE found' \subseteq found
  BY <1>2 DEF PatchCommit, DeleteCommit, Abort
<1>3. ASSUME NEW j \in Jobs, NEW n \in Ids, CreateCommit(j, n) PROVE found' = found
  BY <1>3 DEF CreateCommit, Insert
<1>4. ASSUME NEW b \in BootEntries, BootUpsert(b) PROVE found' = found
  BY <1>4 DEF BootUpsert, Insert
<1>5. Restart \/ UNCHANGED instVars => found' = found
  BY DEF Restart, instVars
<1>6. PICK j \in Jobs, n \in Ids : ScanCreate(j, n)
  BY <1>1, <1>2, <1>3, <1>4, <1>5 DEF Next, Write
<1>7. i = n /\ url'[i] = loc[j].hit.url
  BY <1>6 DEF ScanCreate, Insert, Safe, TableOK
<1>8. ~ Known(loc[j].hit.url)
  BY <1>6 DEF ScanCreate, Unrecorded, Looking
<1> QED
  BY <1>7, <1>8 DEF Known

\* scanner.ts:134-147: a scan adds only peers no row has by base URL, as long as
\* no other job writes that URL between the look-up and the insert; whatever
\* else overlaps (renames, deletions, scans of other peers, restarts, the
\* bootstrap) cannot make a scan record a peer twice.
THEOREM ScansRecordOnce == Spec /\ []ScansAlone => ScansAddUnknown
<1>1. Init => BootAlone /\ Unrecorded
  BY DEF Init, BootAlone, Unrecorded, Looking
<1> DEFINE Added == \A i \in found' \ found : \A k \in rows : url[k] # url'[i]
<1>2. Safe /\ Unrecorded /\ [Next]_instVars => Added
  BY FoundStep
<1> HIDE DEF Added
<1>3. Safe /\ Unrecorded /\ [Next]_instVars => [Added]_instVars
  BY <1>2
<1>4. ScansAddUnknown <=> [][Added]_instVars
  BY DEF ScansAddUnknown, Added
<1> QED
  BY <1>1, <1>3, <1>4, BootAloneStep, UnrecordedStep, SafeAlways, PTL DEF Spec
=============================================================================
