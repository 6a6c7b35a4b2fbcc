------------------------------- MODULE Pages --------------------------------
(***************************************************************************)
(* A page of the web client: it loads what the server has, shows it, lets  *)
(* the user change it and loads again. Calls overlap and answers arrive in *)
(* any order; the server's data changes meanwhile.                         *)
(*                                                                         *)
(* All pages follow one scheme and differ in when they load and in what    *)
(* they do with a failure: a record per page says how.                     *)
(***************************************************************************)
EXTENDS Stream, Sequences, SequencesExt

CONSTANTS
    Subjects,   \* what a page can be about: slots, audit sources, a user
    Kinds,      \* the pages looked at, records of AllPages below
    Keys,       \* parts of the data: rows, properties, permissions
    MaxWrites,  \* bound: writes to the data
    MaxLoads    \* bound: loads in flight

-----------------------------------------------------------------------------
(* the pages *)

Page ==
    [name    |-> "",
     streams |-> FALSE,    \* it holds a socket
     mounts  |-> TRUE,     \* it loads when mounted
     gated   |-> FALSE,    \* ... but only after another call succeeded
     again   |-> FALSE,    \* timer or button: it loads again unasked
     polls   |-> FALSE,    \* timer
     switches |-> TRUE,    \* its subject may change while it is mounted
     follows |-> FALSE,    \* ... and it loads then
     spins   |-> FALSE,    \* a load sets loading, and hides the content
     hides   |-> FALSE,    \* ... and all controls with it
     tells   |-> TRUE,     \* a failed load is shown
     clears  |-> "ok",     \* the error goes with the next "ok" load, the "start" of one, "never"
     drops   |-> FALSE,    \* a failed load empties the page
     acts    |-> TRUE,     \* it has calls that change the data it shows; others (say and
                           \* command of SlotDetail) load nothing and are left out
     sends   |-> "key",    \* what such a call carries: the key, all "edited" keys, the "whole"
     reloads |-> {"ok"}]   \* it loads after a call that went "ok", "failed", only "some"

Dashboard     == [Page EXCEPT !.name = "Dashboard", !.switches = FALSE, !.again = TRUE, !.polls = TRUE,
                              !.reloads = {"ok", "failed"}]
SlotDetail    == [Page EXCEPT !.name = "SlotDetail", !.again = TRUE, !.polls = TRUE,
                              !.follows = TRUE]
Streaming     == [Page EXCEPT !.streams = TRUE, !.mounts = FALSE, !.acts = FALSE]
LogStream     == [Streaming EXCEPT !.name = "LogStream"]
SlotEvents    == [Streaming EXCEPT !.name = "SlotEvents"]
PanelPlayers  == [Page EXCEPT !.name = "PanelPlayers", !.again = TRUE, !.polls = TRUE]
System        == [Page EXCEPT !.name = "System", !.switches = FALSE, !.again = TRUE, !.polls = TRUE, !.acts = FALSE]
Invitations   == [Page EXCEPT !.name = "Invitations", !.switches = FALSE, !.again = TRUE, !.clears = "never"]
AuditLog      == [Page EXCEPT !.name = "AuditLog", !.gated = TRUE, !.again = TRUE,
                              !.follows = TRUE, !.spins = TRUE, !.clears = "start", !.acts = FALSE]
Spinning      == [Page EXCEPT !.spins = TRUE, !.hides = TRUE]
PanelBanlist  == [Spinning EXCEPT !.name = "PanelBanlist"]
PanelWhitelist == [Spinning EXCEPT !.name = "PanelWhitelist", !.hides = FALSE]
PanelBackups  == [Spinning EXCEPT !.name = "PanelBackups", !.hides = FALSE, !.again = TRUE]
PanelProperties == [Spinning EXCEPT !.name = "PanelProperties", !.sends = "edited"]
PanelUpdate   == [Spinning EXCEPT !.name = "PanelUpdate", !.mounts = FALSE, !.again = TRUE,
                                  !.clears = "start", !.drops = TRUE, !.reloads = {}]
Users         == [Spinning EXCEPT !.name = "Users", !.switches = FALSE, !.tells = FALSE, !.reloads = {"ok", "failed"}]
McsmInstances == [Spinning EXCEPT !.name = "McsmInstances", !.switches = FALSE, !.tells = FALSE, !.hides = FALSE,
                                  !.again = TRUE, !.reloads = {"ok", "failed", "some"}]
UserGrants    == [Spinning EXCEPT !.name = "UserGrants", !.tells = FALSE, !.sends = "whole"]
Settings      == [Spinning EXCEPT !.name = "Settings", !.switches = FALSE, !.tells = FALSE]

AllPages == {Dashboard, SlotDetail, SlotEvents, LogStream, PanelPlayers, System, Invitations, AuditLog,
             PanelBanlist, PanelWhitelist, PanelBackups, PanelProperties, PanelUpdate,
             Users, McsmInstances, UserGrants, Settings}

ASSUME PagesAssumption ==
    /\ Kinds \subseteq AllPages /\ Keys # {} /\ None \notin Subjects \cup Keys
    /\ MaxWrites \in Nat /\ MaxLoads \in Nat \ {0}

VARIABLES
    kind, state,     \* the page; it is "off", "on" or "left"
    subject,         \* props, or the selection
    data, clock,     \* external: per subject and key, the number of the last write
    shown,           \* what the last applied answer said, and of which subject
    loading, error,
    edited,          \* the keys the user changed since
    loads,           \* in flight, in the order they were started
    act,             \* in flight: a call that changes the data
    late,            \* history: a newer load had been answered before the one shown
    acked            \* history: the writes of this page that were acknowledged

pageVars == <<kind, state, subject, data, clock, shown, loading, error, edited,
              loads, act, late, acked>>
vars == <<sockVars, pageVars>>

\* bound: a page whose calls carry one key is looked at with one
Parts == IF kind.sends = "key" THEN {CHOOSE k \in Keys : TRUE} ELSE Keys

Blank == [k \in Keys |-> 0]
Nothing == [of |-> None, vals |-> Blank]

Init ==
    /\ SockInit
    /\ kind \in Kinds /\ state = "off" /\ subject = None
    /\ data = [s \in Subjects |-> Blank] /\ clock = 0
    /\ shown = Nothing /\ loading = FALSE /\ error = FALSE /\ edited = {}
    /\ loads = <<>> /\ act = None /\ late = FALSE
    /\ acked = [s \in Subjects |-> Blank]

-----------------------------------------------------------------------------
(* loads *)

Load(s) == [of |-> s, got |-> None, late |-> FALSE]

\* load(), refresh(): the call starts. Parts of an action.
Start(s, spin) ==
    /\ Len(loads) < MaxLoads /\ loads' = Append(loads, Load(s))
    /\ loading' = (loading \/ spin)
    /\ error' = (error /\ kind.clears # "start")
NoStart == UNCHANGED <<loads, loading, error>>

\* mutant of Again: no more loads once one succeeded
UntilLoaded ==
    /\ state = "on" /\ kind.again /\ (kind.drops => ~loading) /\ shown = Nothing
    /\ Start(subject, kind.spins)
    /\ UNCHANGED <<sockVars, kind, state, subject, data, clock, shown, edited, act, late, acked>>

\* setInterval, a refresh button, "check"
Again ==
    /\ state = "on" /\ kind.again /\ (kind.drops => ~loading)
    /\ Start(subject, kind.spins)
    /\ UNCHANGED <<sockVars, kind, state, subject, data, clock, shown, edited, act, late, acked>>

ServerReads(i) ==
    /\ loads[i].got = None
    /\ loads' = [loads EXCEPT ![i].got =
                  IF loads[i].of = None THEN Blank ELSE data[loads[i].of]]
    /\ UNCHANGED <<sockVars, kind, state, subject, data, clock, shown, loading, error,
                   edited, act, late, acked>>

\* The load is over; those started before it are late from now on.
Without(i) == RemoveAt([j \in DOMAIN loads |-> [loads[j] EXCEPT !.late = @ \/ j < i]], i)

Answered(i) ==
    /\ loads[i].got # None /\ loads[i].of # None
    /\ loads' = Without(i)
    /\ shown' = [of |-> loads[i].of, vals |-> loads[i].got]
    /\ late' = loads[i].late
    /\ loading' = FALSE
    /\ error' = (error /\ kind.clears # "ok")
    /\ edited' = {}
    /\ UNCHANGED <<sockVars, kind, state, subject, data, clock, act, acked>>

\* catch and finally of the load
Failed(i) ==
    /\ loads[i].of # None
    /\ loads' = Without(i)
    /\ loading' = FALSE
    /\ error' = (error \/ kind.tells)
    /\ shown' = IF kind.drops THEN Nothing ELSE shown
    /\ UNCHANGED <<sockVars, kind, state, subject, data, clock, edited, act, late, acked>>

\* loadInstances() of the audit page is awaited before the first load and a
\* failure is not caught: loading stays as it was.
GateAnswered(i) ==
    /\ loads[i].of = None /\ loads[i].got # None
    /\ loads' = Append(Without(i), Load(subject)) /\ loading' = TRUE /\ error' = FALSE
    /\ UNCHANGED <<sockVars, kind, state, subject, data, clock, shown, edited, act, late, acked>>
GateFailed(i) ==
    /\ loads[i].of = None
    /\ loads' = Without(i)
    /\ UNCHANGED <<sockVars, kind, state, subject, data, clock, shown, loading, error,
                   edited, act, late, acked>>

-----------------------------------------------------------------------------
(* mounting *)

Mount(s) ==
    /\ state = "off" /\ state' = "on" /\ subject' = s
    /\ IF kind.streams THEN Open(s, TRUE) ELSE UNCHANGED sockVars
    /\ loading' = kind.mounts
    /\ loads' = IF kind.mounts THEN <<Load(IF kind.gated THEN None ELSE s)>> ELSE <<>>
    /\ UNCHANGED <<kind, data, clock, shown, error, edited, act, late, acked>>

\* mutant of Switch: nobody watches the props
IgnoresSwitch(s) ==
    /\ state = "on" /\ kind.switches /\ s # subject /\ subject' = s
    /\ UNCHANGED <<sockVars, kind, state, data, clock, shown, loading, error, edited,
                   loads, act, late, acked>>

\* The route or the selection changes; a page that does not watch its props
\* goes on with what it has.
Switch(s) ==
    /\ state = "on" /\ kind.switches /\ s # subject /\ subject' = s
    /\ IF kind.streams THEN Open(s, kind = LogStream) ELSE UNCHANGED sockVars
    /\ IF kind.follows THEN Start(s, TRUE) ELSE NoStart
    /\ UNCHANGED <<kind, state, data, clock, shown, edited, act, late, acked>>

Unmount ==
    /\ state = "on" /\ state' = "left"
    /\ Close /\ loads' = <<>>
    /\ UNCHANGED <<kind, subject, data, clock, shown, loading, error, edited, act, late, acked>>

Socket(c) ==
    /\ \/ kind = LogStream /\ OnOpen(c)
       \/ kind = SlotEvents /\ EventsOpen(c)
       \/ OnClose(c)
       \/ state = "on" /\ OnMessage(c)
    /\ UNCHANGED pageVars

ClearButton == state = "on" /\ kind = LogStream /\ Clear /\ UNCHANGED pageVars

-----------------------------------------------------------------------------
(* calls that change the data *)

Call(keys, base) == [of |-> subject, keys |-> keys, base |-> base, done |-> None]

Calls ==
    /\ state = "on" /\ kind.acts /\ act = None
    /\ kind.hides => ~loading
    /\ UNCHANGED <<sockVars, kind, state, subject, data, clock, shown, loading, error,
                   loads, late, acked>>

SendKey(k) ==
    /\ kind.sends = "key" /\ Calls
    /\ kind.drops => shown.of # None
    /\ act' = Call({k}, None) /\ UNCHANGED edited

\* an input of the properties form
Edit(k) ==
    /\ kind.sends = "edited" /\ state = "on" /\ ~loading /\ shown.of # None
    /\ edited' = edited \cup {k}
    /\ UNCHANGED <<sockVars, kind, state, subject, data, clock, shown, loading, error,
                   loads, act, late, acked>>

\* mutant of Save: the whole draft is sent
SavesDraft ==
    /\ kind.sends = "edited" /\ edited # {} /\ Calls
    /\ act' = Call(edited, shown.vals) /\ UNCHANGED edited

\* save(): only what differs from what was loaded
Save ==
    /\ kind.sends = "edited" /\ edited # {} /\ Calls
    /\ act' = Call(edited, None) /\ UNCHANGED edited

\* togglePerm(): one permission, and all others as they were loaded
TogglePerm(k) ==
    /\ kind.sends = "whole" /\ shown.of # None /\ Calls
    /\ act' = Call({k}, shown.vals) /\ UNCHANGED edited

CarriedOut ==
    /\ act # None /\ act.done = None /\ clock < MaxWrites
    /\ clock' = clock + 1
    /\ data' = [data EXCEPT ![act.of] = [k \in Keys |->
                  IF k \in act.keys THEN clock + 1 ELSE IF act.base = None THEN @[k] ELSE act.base[k]]]
    /\ act' = [act EXCEPT !.done = clock + 1]
    /\ UNCHANGED <<sockVars, kind, state, subject, shown, loading, error, edited, loads, late, acked>>

Acknowledged ==
    /\ acked' = [acked EXCEPT ![act.of] =
                   [k \in Keys |-> IF k \in act.keys THEN act.done ELSE @[k]]]
    /\ act' = None
    /\ UNCHANGED <<sockVars, kind, state, subject, data, clock, shown, edited, late>>

\* mutant of CallOk: the page does not load again
KeepsOld == act # None /\ act.done # None /\ Acknowledged /\ NoStart

CallOk ==
    /\ act # None /\ act.done # None
    /\ Acknowledged
    /\ IF state = "on" /\ "ok" \in kind.reloads THEN Start(subject, kind.spins) ELSE NoStart

\* refused, or carried out and the answer lost
CallFailed ==
    /\ act # None /\ act' = None
    /\ \/ state = "on" /\ "failed" \in kind.reloads /\ Start(subject, kind.spins)
       \/ (state = "on" => "failed" \notin kind.reloads \/ "some" \in kind.reloads) /\ NoStart
    /\ UNCHANGED <<sockVars, kind, state, subject, data, clock, shown, edited, late, acked>>

OthersWrite(s, k) ==
    /\ clock < MaxWrites /\ clock' = clock + 1
    /\ data' = [data EXCEPT ![s][k] = clock + 1]
    /\ UNCHANGED <<sockVars, kind, state, subject, shown, loading, error, edited, loads,
                   act, late, acked>>

-----------------------------------------------------------------------------
Next ==
    \/ \E s \in Subjects : Mount(s) \/ Switch(s) \/ (\E k \in Parts : OthersWrite(s, k))
    \/ Unmount \/ Again \/ ClearButton
    \/ \E i \in DOMAIN loads : ServerReads(i) \/ Answered(i) \/ Failed(i)
                               \/ GateAnswered(i) \/ GateFailed(i)
    \/ \E c \in Conns : Socket(c)
    \/ \E k \in Parts : SendKey(k) \/ Edit(k) \/ TogglePerm(k)
    \/ Save \/ CarriedOut \/ CallOk \/ CallFailed
Spec == Init /\ [][Next]_vars

\* Timers fire; mcsw answers some load of a page that asks again and again.
Fairness ==
    /\ WF_vars(kind.polls /\ Again)
    /\ SF_vars(\E i \in DOMAIN loads : ServerReads(i))
    /\ SF_vars(\E i \in DOMAIN loads : Answered(i))
FairSpec == Spec /\ Fairness

-----------------------------------------------------------------------------
(* properties *)

\* Types, and: a page that is not mounted has no call in flight.
TypeOK ==
    /\ sock \in [Conns -> {"none", "connecting", "open", "closing", "closed"}]
    /\ slotOf \in [Conns -> Subjects \cup {None}] /\ ws \in Conns \cup {None}
    /\ connected \in BOOLEAN /\ lines \subseteq Conns /\ clobbered \in BOOLEAN
    /\ kind \in Kinds /\ state \in {"off", "on", "left"} /\ subject \in Subjects \cup {None}
    /\ data \in [Subjects -> [Keys -> 0 .. MaxWrites]] /\ clock \in 0 .. MaxWrites
    /\ shown \in [of : Subjects \cup {None}, vals : [Keys -> 0 .. MaxWrites]]
    /\ loading \in BOOLEAN /\ error \in BOOLEAN /\ late \in BOOLEAN /\ edited \subseteq Keys
    /\ acked \in [Subjects -> [Keys -> 0 .. MaxWrites]]
    /\ Len(loads) <= MaxLoads /\ (state # "on" => loads = <<>>)

\* The page opens and closes sockets so that only the one it holds is alive,
\* unless a late close event took the handle away: then a socket goes on after
\* the page has left it (LogStream.vue:30,45, SlotDetail.vue:64,66).
HeldOrEnding == ~clobbered => \A c \in Conns : sock[c] \in Live => c = ws

\* Every line of the log view is from the slot it shows, with the same
\* exception (LogStream.vue:72).
OwnLines == kind = LogStream /\ ~clobbered => \A c \in lines : slotOf[c] = subject

\* "live" is shown only while a socket is open (LogStream.vue:29-30,47), and a
\* spinner only while a call is in flight, but on the audit log, where it stays
\* when the list of instances cannot be loaded (AuditLog.vue:43-46).
IndicatorsTrue ==
    /\ connected => \E c \in Conns : sock[c] = "open"
    /\ loading /\ ~kind.gated /\ state = "on" => loads # <<>>

Settled == state = "on" /\ loads = <<>> /\ ~loading /\ ~error /\ ~late

\* Once nothing is in flight a page that loads on a switch shows what it is
\* about, unless it shows an error or an older load was answered last
\* (SlotDetail.vue:111-115, AuditLog.vue:53).
RightSubject == Settled /\ kind.follows => shown.of = subject

\* Under the same condition a page that tells of failed loads shows the user's
\* own acknowledged changes (e.g. PanelWhitelist.vue:32-45).
SeesOwnActs == Settled /\ kind.tells /\ "ok" \in kind.reloads /\ shown.of = subject =>
    \A k \in Keys : shown.vals[k] >= acked[subject][k]

\* No call takes back what another user wrote since the page loaded; only the
\* grants page, which sends all permissions, may (PanelProperties.vue:34-47).
NoRevert == [][kind.sends # "whole" =>
    \A s \in Subjects, k \in Keys : data'[s][k] >= data[s][k]]_vars

\* A page with a timer ends up with what the server has, whatever answers it
\* missed or took in the wrong order, once the data stops changing (bound
\* MaxWrites), the user stays and some loads succeed (Dashboard.vue:49).
PollHeals == kind.polls /\ <>[][subject' = subject]_vars =>
    <>[](state = "on" => shown = [of |-> subject, vals |-> data[subject]])
=============================================================================
