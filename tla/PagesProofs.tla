----------------------------- MODULE PagesProofs -----------------------------
(***************************************************************************)
(* Theorems about Pages, for any pages, subjects, keys, sockets and loads  *)
(* in flight.                                                              *)
(***************************************************************************)
EXTENDS Pages, SequenceTheorems, TLAPS

\* No number is newer than the last write.
Vals == [Keys -> 0 .. clock]
LoadRecs == [of : Subjects \cup {None}, got : Vals \cup {None}, late : BOOLEAN]
CallRecs == [of : Subjects, keys : SUBSET Keys, base : Vals \cup {None},
             done : (0 .. clock) \cup {None}]

SockTypes ==
    /\ sock \in [Conns -> {"none", "connecting", "open", "closing", "closed"}]
    /\ slotOf \in [Conns -> Subjects \cup {None}] /\ ws \in Conns \cup {None}
    /\ connected \in BOOLEAN /\ lines \subseteq Conns /\ clobbered \in BOOLEAN

PageTypes ==
    /\ kind \in Kinds /\ state \in {"off", "on", "left"}
    /\ subject \in Subjects \cup {None} /\ (state = "on" => subject \in Subjects)
    /\ clock \in 0 .. MaxWrites /\ data \in [Subjects -> Vals]
    /\ shown \in [of : Subjects \cup {None}, vals : Vals]
    /\ loading \in BOOLEAN /\ error \in BOOLEAN /\ late \in BOOLEAN /\ edited \subseteq Keys
    /\ loads \in Seq(LoadRecs) /\ Len(loads) <= MaxLoads /\ (state # "on" => loads = <<>>)
    /\ act \in CallRecs \cup {None} /\ acked \in [Subjects -> Vals]

Types == SockTypes /\ PageTypes

-----------------------------------------------------------------------------
\* What the records of AllPages have in common.
Regular(k) ==
    /\ k.follows => k.tells /\ k.mounts
    /\ k.tells => k.sends # "whole"
    /\ k.polls => ~k.gated /\ ~k.drops
    /\ \A b \in {k.streams, k.mounts, k.gated, k.spins, k.tells} : b \in BOOLEAN

LEMMA KindFacts ==
  ASSUME kind \in Kinds
  PROVE  Regular(kind) /\ LogStream.streams
  <1>1. Regular(Dashboard)
    BY DEF Regular, Dashboard, Page
  <1>2. Regular(SlotDetail)
    BY DEF Regular, SlotDetail, Page
  <1>3. Regular(SlotEvents)
    BY DEF Regular, SlotEvents, Streaming, Page
  <1>4. Regular(LogStream)
    BY DEF Regular, LogStream, Streaming, Page
  <1>5. Regular(PanelPlayers)
    BY DEF Regular, PanelPlayers, Page
  <1>6. Regular(System)
    BY DEF Regular, System, Page
  <1>7. Regular(Invitations)
    BY DEF Regular, Invitations, Page
  <1>8. Regular(AuditLog)
    BY DEF Regular, AuditLog, Page
  <1>9. Regular(PanelBanlist)
    BY DEF Regular, PanelBanlist, Spinning, Page
  <1>10. Regular(PanelWhitelist)
    BY DEF Regular, PanelWhitelist, Spinning, Page
  <1>11. Regular(PanelBackups)
    BY DEF Regular, PanelBackups, Spinning, Page
  <1>12. Regular(PanelProperties)
    BY DEF Regular, PanelProperties, Spinning, Page
  <1>13. Regular(PanelUpdate)
    BY DEF Regular, PanelUpdate, Spinning, Page
  <1>14. Regular(Users)
    BY DEF Regular, Users, Spinning, Page
  <1>15. Regular(McsmInstances)
    BY DEF Regular, McsmInstances, Spinning, Page
  <1>16. Regular(UserGrants)
    BY DEF Regular, UserGrants, Spinning, Page
  <1>17. Regular(Settings)
    BY DEF Regular, Settings, Spinning, Page
  <1>18. kind \in AllPages
    BY PagesAssumption
  <1>19. LogStream.streams
    BY DEF LogStream, Streaming, Page
  <1> QED
    BY <1>1, <1>2, <1>3, <1>4, <1>5, <1>6, <1>7, <1>8, <1>9, <1>10, <1>11, <1>12, <1>13, <1>14,
       <1>15, <1>16, <1>17, <1>18, <1>19 DEF AllPages

\* What is left when load i is over.
LEMMA WithoutIs ==
  ASSUME loads \in Seq(LoadRecs), NEW i \in DOMAIN loads
  PROVE  /\ Without(i) \in Seq(LoadRecs) /\ Len(Without(i)) = Len(loads) - 1
         /\ \A j \in 1 .. Len(loads) - 1 :
              Without(i)[j] = IF j < i THEN [loads[j] EXCEPT !.late = TRUE] ELSE loads[j + 1]
  <1> DEFINE m == [j \in DOMAIN loads |-> [loads[j] EXCEPT !.late = @ \/ j < i]]
  <1>1. \A j \in DOMAIN loads : loads[j] \in LoadRecs
    OBVIOUS
  <1>2. \A j \in DOMAIN loads : m[j] \in LoadRecs
    BY <1>1 DEF LoadRecs
  <1>3. DOMAIN loads = 1 .. Len(loads) /\ Len(loads) \in Nat
    OBVIOUS
  <1>4. m \in Seq(LoadRecs) /\ Len(m) = Len(loads)
    BY <1>2, <1>3
  <1>5. \A j \in DOMAIN loads : m[j] = IF j < i THEN [loads[j] EXCEPT !.late = TRUE] ELSE loads[j]
    BY <1>1, <1>3 DEF LoadRecs
  <1>6. Without(i) = SubSeq(m, 1, i - 1) \o SubSeq(m, i + 1, Len(m))
    BY DEF Without, RemoveAt
  <1> HIDE DEF m
  <1>7. /\ SubSeq(m, 1, i - 1) \in Seq(LoadRecs) /\ Len(SubSeq(m, 1, i - 1)) = i - 1
        /\ \A j \in 1 .. i - 1 : SubSeq(m, 1, i - 1)[j] = m[j]
    BY <1>3, <1>4
  <1>8. /\ SubSeq(m, i + 1, Len(m)) \in Seq(LoadRecs)
        /\ Len(SubSeq(m, i + 1, Len(m))) = Len(m) - i
        /\ \A j \in 1 .. Len(m) - i : SubSeq(m, i + 1, Len(m))[j] = m[i + j]
    BY <1>3, <1>4
  <1> DEFINE p == SubSeq(m, 1, i - 1)
             q == SubSeq(m, i + 1, Len(m))
  <1> HIDE DEF p, q
  <1>9. /\ i \in 1 .. Len(m) /\ Len(m) \in Nat
        /\ p \in Seq(LoadRecs) /\ Len(p) = i - 1 /\ q \in Seq(LoadRecs) /\ Len(q) = Len(m) - i
    BY <1>3, <1>4, <1>7, <1>8 DEF p, q
  <1>10. /\ Without(i) = p \o q /\ Without(i) \in Seq(LoadRecs) /\ Len(Without(i)) = Len(m) - 1
    <2>1. Without(i) = p \o q
      BY <1>6 DEF p, q
    <2>2. p \o q \in Seq(LoadRecs) /\ Len(p \o q) = Len(p) + Len(q)
      BY <1>9, ConcatProperties
    <2> QED
      BY <2>1, <2>2, <1>9
  <1>11. ASSUME NEW j \in 1 .. Len(m) - 1 PROVE Without(i)[j] = IF j < i THEN m[j] ELSE m[j + 1]
    <2>1. CASE j < i
      BY <2>1, <1>7, <1>9, <1>10 DEF p
    <2>2. CASE ~(j < i)
      <3>1. Without(i)[j] = q[j - (i - 1)] /\ j - (i - 1) \in 1 .. Len(m) - i
        <4>1. Without(i)[j] = (p \o q)[j] /\ j \in 1 .. Len(p) + Len(q) /\ ~(j <= Len(p))
          BY <2>2, <1>9, <1>10
        <4>2. (p \o q)[j] = q[j - Len(p)]
          BY <4>1, <1>9, ConcatProperties
        <4>3. Len(p) = i - 1 /\ j - (i - 1) \in 1 .. Len(m) - i
          BY <2>2, <1>9
        <4> QED
          BY <4>1, <4>2, <4>3
      <3>2. q[j - (i - 1)] = m[i + (j - (i - 1))]
        BY <3>1, <1>8 DEF q
      <3>3. i + (j - (i - 1)) = j + 1
        BY <1>9
      <3> QED
        BY <2>2, <3>1, <3>2, <3>3
    <2> QED
      BY <2>1, <2>2
  <1>12. ASSUME NEW j \in 1 .. Len(loads) - 1
         PROVE  Without(i)[j] = IF j < i THEN [loads[j] EXCEPT !.late = TRUE] ELSE loads[j + 1]
    <2>1. j \in DOMAIN loads /\ j + 1 \in DOMAIN loads
      BY <1>3
    <2>2. ~(j < i) => ~(j + 1 < i)
      BY <1>3
    <2> QED
      BY <2>1, <2>2, <1>4, <1>5, <1>11
  <1> QED
    BY <1>4, <1>10, <1>12

\* More can be in the data after a write.
LEMMA Wider ==
  ASSUME PageTypes, clock' = clock + 1
  PROVE  /\ Vals \subseteq Vals' /\ LoadRecs \subseteq LoadRecs' /\ CallRecs \subseteq CallRecs'
         /\ Seq(LoadRecs) \subseteq Seq(LoadRecs')
  <1>1. 0 .. clock \subseteq 0 .. clock'
    BY PagesAssumption DEF PageTypes
  <1>2. Vals \subseteq Vals'
    BY <1>1 DEF Vals
  <1>3. LoadRecs \subseteq LoadRecs'
    BY <1>2 DEF LoadRecs
  <1>4. CallRecs \subseteq CallRecs'
    BY <1>1, <1>2 DEF CallRecs
  <1> QED
    BY <1>2, <1>3, <1>4

-----------------------------------------------------------------------------
(* the socket *)

\* The socket of the handle belongs to what the log view shows.
Own == kind = LogStream /\ ~clobbered =>
    /\ ws # None => slotOf[ws] = subject
    /\ \A c \in lines : slotOf[c] = subject

Socketed == SockTypes /\ HeldOrEnding /\ Own /\ (connected => \E c \in Conns : sock[c] = "open")

LEMMA OpenKeeps ==
  ASSUME Socketed, NEW s \in Subjects, NEW fresh, Open(s, fresh), kind' = kind,
         subject' = s, kind = LogStream => fresh
  PROVE  Socketed'
  <1> USE StreamAssumption DEF Socketed
  <1>1. PICK c \in Conns :
           /\ sock[c] = "none" /\ sock' = [Closing(sock) EXCEPT ![c] = "connecting"]
           /\ slotOf' = [slotOf EXCEPT ![c] = s] /\ ws' = c /\ connected' = FALSE
           /\ lines' = IF fresh THEN {} ELSE lines
           /\ clobbered' = clobbered
    BY DEF Open
  <1>2. SockTypes'
    BY <1>1 DEF SockTypes, Closing
  <1>3. HeldOrEnding'
    BY <1>1 DEF SockTypes, HeldOrEnding, Closing, Live
  <1>4. Own'
    BY <1>1 DEF SockTypes, Own
  <1> QED
    BY <1>1, <1>2, <1>3, <1>4

LEMMA SocketStep == Socketed /\ PageTypes /\ [Next]_vars => Socketed'
  <1> SUFFICES ASSUME Socketed, PageTypes, [Next]_vars PROVE Socketed'
    OBVIOUS
  <1> USE StreamAssumption, KindFacts
  <1>1. ASSUME UNCHANGED sockVars, UNCHANGED kind, UNCHANGED subject PROVE Socketed'
    BY <1>1 DEF sockVars, Socketed, SockTypes, HeldOrEnding, Own
  <1>2. ASSUME NEW s \in Subjects, Mount(s) PROVE Socketed'
    <2>1. CASE kind.streams
      BY <1>2, <2>1, OpenKeeps DEF Mount
    <2>2. CASE ~kind.streams
      BY <1>2, <2>2 DEF Mount, PageTypes, sockVars, Socketed, SockTypes, HeldOrEnding, Own
    <2> QED
      BY <2>1, <2>2
  <1>3. ASSUME NEW s \in Subjects, Switch(s) PROVE Socketed'
    <2>1. CASE kind.streams
      BY <1>3, <2>1, OpenKeeps DEF Switch
    <2>2. CASE ~kind.streams
      BY <1>3, <2>2 DEF Switch, PageTypes, sockVars, Socketed, SockTypes, HeldOrEnding, Own
    <2> QED
      BY <2>1, <2>2
  <1>4. ASSUME Unmount PROVE Socketed'
    <2>1. SockTypes'
      BY <1>4 DEF Unmount, Close, Closing, Socketed, SockTypes
    <2> QED
      BY <1>4, <2>1 DEF Unmount, Close, Closing, Live, Socketed, SockTypes, HeldOrEnding, Own
  <1>5. ASSUME ClearButton PROVE Socketed'
    BY <1>5 DEF ClearButton, Clear, pageVars, Socketed, SockTypes, HeldOrEnding, Own
  <1>6. ASSUME NEW c \in Conns, Socket(c) PROVE Socketed'
    <2>1. UNCHANGED <<kind, subject>> /\ (OnOpen(c) \/ EventsOpen(c) \/ OnClose(c) \/ OnMessage(c))
      BY <1>6 DEF Socket, pageVars
    <2>2. CASE OnOpen(c)
      BY <2>1, <2>2 DEF OnOpen, Socketed, SockTypes, HeldOrEnding, Own, Live
    <2>3. CASE EventsOpen(c)
      BY <2>1, <2>3 DEF EventsOpen, Socketed, SockTypes, HeldOrEnding, Own, Live
    <2>4. CASE OnClose(c)
      BY <2>1, <2>4 DEF OnClose, Socketed, SockTypes, HeldOrEnding, Own, Live
    <2>5. CASE OnMessage(c)
      BY <2>1, <2>5 DEF OnMessage, Socketed, SockTypes, HeldOrEnding, Own, Live
    <2> QED
      BY <2>1, <2>2, <2>3, <2>4, <2>5
  <1>7. CASE UNCHANGED vars
    BY <1>1, <1>7 DEF vars, pageVars
  <1>8. CASE \E s \in Subjects, k \in Parts : OthersWrite(s, k)
    BY <1>1, <1>8 DEF OthersWrite
  <1>9. CASE Again
    BY <1>1, <1>9 DEF Again
  <1>10. CASE \E i \in DOMAIN loads : ServerReads(i) \/ Answered(i) \/ Failed(i)
                                     \/ GateAnswered(i) \/ GateFailed(i)
    BY <1>1, <1>10 DEF ServerReads, Answered, Failed, GateAnswered, GateFailed
  <1>11. CASE \E k \in Parts : SendKey(k) \/ Edit(k) \/ TogglePerm(k)
    BY <1>1, <1>11 DEF SendKey, Edit, TogglePerm, Calls
  <1>12. CASE Save \/ CarriedOut \/ CallOk \/ CallFailed
    BY <1>1, <1>12 DEF Save, Calls, CarriedOut, CallOk, Acknowledged, CallFailed
  <1> QED
    BY <1>2, <1>3, <1>4, <1>5, <1>6, <1>7, <1>8, <1>9, <1>10, <1>11, <1>12 DEF Next

-----------------------------------------------------------------------------
(* types *)

LEMMA LoadsTyped ==
  ASSUME PageTypes, NEW s \in Subjects \cup {None}, NEW seq \in Seq(LoadRecs)
  PROVE  /\ Load(s) \in LoadRecs /\ Append(seq, Load(s)) \in Seq(LoadRecs)
         /\ Len(Append(seq, Load(s))) = Len(seq) + 1
         /\ <<Load(s)>> \in Seq(LoadRecs)
  <1>1. Load(s) \in LoadRecs
    BY DEF Load, LoadRecs
  <1> QED
    BY <1>1 DEF PageTypes

LEMMA LoadsAre == PageTypes => \A i \in DOMAIN loads : loads[i] \in LoadRecs
  BY DEF PageTypes

\* A step that writes nothing to the data.
Same == UNCHANGED <<kind, clock, data>>

LEMMA SameTypes == Same => Vals' = Vals /\ LoadRecs' = LoadRecs /\ CallRecs' = CallRecs
  BY DEF Same, Vals, LoadRecs, CallRecs

LEMMA TypesStart ==
  ASSUME PageTypes, Same, NEW s \in Subjects, NEW spin \in BOOLEAN, Start(s, spin), state' = "on"
  PROVE  loads' \in Seq(LoadRecs') /\ Len(loads') <= MaxLoads
         /\ loading' \in BOOLEAN /\ error' \in BOOLEAN
  <1>1. Append(loads, Load(s)) \in Seq(LoadRecs) /\ Len(Append(loads, Load(s))) = Len(loads) + 1
    BY LoadsTyped DEF PageTypes
  <1> QED
    BY <1>1, SameTypes, PagesAssumption DEF PageTypes, Start

LEMMA TypesStep == PageTypes /\ [Next]_vars => PageTypes'
  <1> SUFFICES ASSUME PageTypes, [Next]_vars PROVE PageTypes'
    OBVIOUS
  <1> USE PagesAssumption, KindFacts DEF Regular, PageTypes
  <1>1. Blank \in Vals /\ Parts \subseteq Keys
    BY DEF Blank, Vals, Parts
  <1>2. ASSUME NEW s \in Subjects, Mount(s) PROVE PageTypes'
    <2>1. loads' \in Seq(LoadRecs) /\ Len(loads') <= MaxLoads
      <3>1. ASSUME NEW u \in Subjects \cup {None}
            PROVE  <<Load(u)>> \in Seq(LoadRecs) /\ Len(<<Load(u)>>) = 1
        BY LoadsTyped
      <3>2. CASE kind.mounts
        BY <1>2, <3>1, <3>2 DEF Mount
      <3>3. CASE ~kind.mounts
        BY <1>2, <3>3 DEF Mount
      <3> QED
        BY <3>2, <3>3
    <2> QED
      BY <1>2, <2>1, SameTypes DEF Mount, Same
  <1>3. ASSUME NEW s \in Subjects, Switch(s) PROVE PageTypes'
    <2>1. Same
      BY <1>3 DEF Switch, Same
    <2>2. CASE kind.follows
      BY <1>3, <2>1, <2>2, TypesStart, SameTypes DEF Switch
    <2>3. CASE ~kind.follows
      BY <1>3, <2>1, <2>3, SameTypes DEF Switch, NoStart
    <2> QED
      BY <2>2, <2>3
  <1>4. CASE Unmount
    BY <1>4, SameTypes DEF Unmount, Same
  <1>5. CASE ClearButton \/ \E c \in Conns : Socket(c)
    BY <1>5, SameTypes DEF ClearButton, Socket, pageVars, Same
  <1>6. CASE Again
    <2>1. Same /\ state' = "on"
      BY <1>6 DEF Again, Same
    <2> QED
      BY <1>6, <2>1, TypesStart, SameTypes DEF Again
  <1>7. ASSUME NEW s \in Subjects, NEW k \in Parts, OthersWrite(s, k) PROVE PageTypes'
    <2>1. clock' = clock + 1 /\ clock' \in 0 .. MaxWrites
      BY <1>7 DEF OthersWrite
    <2>2. data' \in [Subjects -> Vals']
      <3>1. ASSUME NEW v \in Vals PROVE [v EXCEPT ![k] = clock + 1] \in Vals'
        <4>1. v \in [Keys -> 0 .. clock'] /\ clock + 1 \in 0 .. clock'
          BY <2>1 DEF Vals
        <4> QED
          BY <1>1, <4>1 DEF Vals
      <3> QED
        BY <1>7, <2>1, <3>1, Wider DEF OthersWrite
    <2> QED
      BY <1>7, <2>1, <2>2, Wider DEF OthersWrite
  <1>8. ASSUME NEW i \in DOMAIN loads, ServerReads(i) PROVE PageTypes'
    <2>1. (IF loads[i].of = None THEN Blank ELSE data[loads[i].of]) \in Vals
      BY <1>1, LoadsAre DEF LoadRecs
    <2>2. loads' \in Seq(LoadRecs) /\ Len(loads') = Len(loads) /\ state' = state
      <3>1. ASSUME NEW v \in Vals PROVE [loads[i] EXCEPT !.got = v] \in LoadRecs
        BY LoadsAre DEF LoadRecs
      <3> QED
        BY <1>8, <2>1, <3>1 DEF ServerReads
    <2> QED
      BY <1>8, <2>2, SameTypes DEF ServerReads, Same
  <1>9. ASSUME NEW i \in DOMAIN loads, Answered(i) PROVE PageTypes'
    <2>1. loads' \in Seq(LoadRecs) /\ Len(loads') <= MaxLoads /\ state' = state /\ state = "on"
      BY <1>9, WithoutIs DEF Answered
    <2>2. shown' \in [of : Subjects \cup {None}, vals : Vals] /\ late' \in BOOLEAN
      BY <1>9, LoadsAre DEF Answered, LoadRecs
    <2> QED
      BY <1>9, <2>1, <2>2, SameTypes DEF Answered, Same
  <1>10. ASSUME NEW i \in DOMAIN loads, Failed(i) PROVE PageTypes'
    <2>1. loads' \in Seq(LoadRecs) /\ Len(loads') <= MaxLoads /\ state' = state /\ state = "on"
      BY <1>10, WithoutIs DEF Failed
    <2>2. shown' \in [of : Subjects \cup {None}, vals : Vals]
      BY <1>1, <1>10 DEF Failed, Nothing
    <2> QED
      BY <1>10, <2>1, <2>2, SameTypes DEF Failed, Same
  <1>11. ASSUME NEW i \in DOMAIN loads, GateAnswered(i) \/ GateFailed(i) PROVE PageTypes'
    <2>1. loads' \in Seq(LoadRecs) /\ Len(loads') <= MaxLoads /\ state' = state /\ state = "on"
      <3>1. Without(i) \in Seq(LoadRecs) /\ Len(Without(i)) = Len(loads) - 1
        BY WithoutIs
      <3>2. /\ Append(Without(i), Load(subject)) \in Seq(LoadRecs)
            /\ Len(Append(Without(i), Load(subject))) = Len(loads)
        BY <3>1, LoadsTyped
      <3>3. state = "on" /\ state' = state
        BY <1>11 DEF GateAnswered, GateFailed
      <3>4. Len(loads) \in Nat /\ Len(loads) - 1 <= MaxLoads
        BY <3>3
      <3>5. CASE GateAnswered(i)
        BY <3>2, <3>3, <3>5 DEF GateAnswered
      <3>6. CASE GateFailed(i)
        BY <3>1, <3>3, <3>4, <3>6 DEF GateFailed
      <3> QED
        BY <1>11, <3>5, <3>6
    <2> QED
      BY <1>11, <2>1, SameTypes DEF GateAnswered, GateFailed, Same
  <1>12. ASSUME NEW k \in Parts, SendKey(k) \/ Edit(k) \/ TogglePerm(k) PROVE PageTypes'
    <2>1. k \in Keys
      BY <1>1
    <2>2. subject \in Subjects /\ Call({k}, None) \in CallRecs /\ Call({k}, shown.vals) \in CallRecs
      BY <1>12, <2>1 DEF SendKey, Edit, TogglePerm, Calls, Call, CallRecs
    <2> QED
      BY <1>12, <2>1, <2>2, SameTypes DEF SendKey, Edit, TogglePerm, Calls, Same
  <1>13. CASE Save
    <2>1. Call(edited, None) \in CallRecs
      BY <1>13 DEF Save, Calls, Call, CallRecs
    <2> QED
      BY <1>13, <2>1, SameTypes DEF Save, Calls, Same
  <1>14. CASE CarriedOut
    <2>1. clock' = clock + 1 /\ clock' \in 0 .. MaxWrites /\ act \in CallRecs
      BY <1>14 DEF CarriedOut
    <2>2. data' \in [Subjects -> Vals'] /\ act' \in CallRecs'
      <3>1. act.of \in Subjects /\ act.base \in Vals \cup {None}
        BY <2>1 DEF CallRecs
      <3>2. [k \in Keys |-> IF k \in act.keys THEN clock + 1
                          ELSE IF act.base = None THEN data[act.of][k] ELSE act.base[k]] \in Vals'
        <4>1. clock + 1 \in 0 .. clock' /\ 0 .. clock \subseteq 0 .. clock'
          BY <2>1
        <4>2. data[act.of] \in [Keys -> 0 .. clock] /\ act.base \in [Keys -> 0 .. clock] \cup {None}
          BY <3>1 DEF Vals
        <4>3. ASSUME NEW k \in Keys
              PROVE  (IF k \in act.keys THEN clock + 1
                      ELSE IF act.base = None THEN data[act.of][k] ELSE act.base[k]) \in 0 .. clock'
          BY <4>1, <4>2
        <4> QED
          BY <4>3 DEF Vals
      <3>3. [act EXCEPT !.done = clock + 1] \in CallRecs'
        BY <2>1, Wider DEF CallRecs
      <3> QED
        BY <1>14, <2>1, <3>1, <3>2, <3>3, Wider DEF CarriedOut
    <2> QED
      BY <1>14, <2>1, <2>2, Wider DEF CarriedOut
  <1>15. CASE CallOk
    <2>1. Same /\ act \in CallRecs /\ act' = None /\ state' = state /\ subject' = subject
      BY <1>15 DEF CallOk, Acknowledged, Same
    <2>2. acked' \in [Subjects -> Vals]
      <3>1. act.of \in Subjects /\ act.done \in 0 .. clock
        BY <1>15, <2>1 DEF CallOk, CallRecs
      <3>2. [k \in Keys |-> IF k \in act.keys THEN act.done ELSE acked[act.of][k]] \in Vals
        BY <3>1 DEF Vals
      <3> QED
        BY <1>15, <3>1, <3>2 DEF CallOk, Acknowledged
    <2>3. CASE state = "on" /\ "ok" \in kind.reloads
      BY <1>15, <2>1, <2>2, <2>3, TypesStart, SameTypes DEF CallOk, Acknowledged
    <2>4. CASE ~(state = "on" /\ "ok" \in kind.reloads)
      BY <1>15, <2>1, <2>2, <2>4, SameTypes DEF CallOk, Acknowledged, NoStart
    <2> QED
      BY <2>3, <2>4
  <1>16. CASE CallFailed
    <2>1. Same
      BY <1>16 DEF CallFailed, Same
    <2>2. CASE state = "on" /\ Start(subject, kind.spins)
      BY <1>16, <2>1, <2>2, TypesStart, SameTypes DEF CallFailed
    <2>3. CASE NoStart
      BY <1>16, <2>1, <2>3, SameTypes DEF CallFailed, NoStart
    <2> QED
      BY <1>16, <2>2, <2>3 DEF CallFailed
  <1>17. CASE UNCHANGED vars
    BY <1>17, SameTypes DEF vars, pageVars, Same
  <1> QED
    BY <1>2, <1>3, <1>4, <1>5, <1>6, <1>7, <1>8, <1>9, <1>10, <1>11, <1>12, <1>13, <1>14, <1>15,
       <1>16, <1>17 DEF Next

-----------------------------------------------------------------------------
(* the data *)

Before(u, v) == \A k \in Keys : u[k] <= v[k]

\* A call that sends one key or the edited ones never takes anything back, so
\* what was acknowledged is still there, or something newer.
Truth ==
    /\ act # None /\ act.base # None => kind.sends = "whole"
    /\ kind.sends # "whole" =>
         /\ \A s \in Subjects : Before(acked[s], data[s])
         /\ act # None /\ act.done # None => \A k \in act.keys : act.done <= data[act.of][k]

LEMMA Grows ==
  ASSUME PageTypes, Truth, [Next]_vars, kind.sends # "whole"
  PROVE  \A s \in Subjects, k \in Keys : data[s][k] <= data'[s][k]
  <1>1. \A s \in Subjects, k \in Keys : data[s][k] \in 0 .. clock /\ clock \in Nat
    BY PagesAssumption DEF PageTypes, Vals
  <1>2. CASE UNCHANGED data
    BY <1>1, <1>2
  <1>3. CASE \E s \in Subjects, k \in Parts : OthersWrite(s, k)
    BY <1>1, <1>3 DEF OthersWrite, PageTypes, Vals
  <1>4. CASE CarriedOut
    <2>1. act \in CallRecs /\ act.base = None /\ act.of \in Subjects
      BY <1>4 DEF CarriedOut, Truth, PageTypes, CallRecs
    <2>2. data' = [data EXCEPT ![act.of] = [k \in Keys |->
                      IF k \in act.keys THEN clock + 1 ELSE data[act.of][k]]]
      BY <1>4, <2>1 DEF CarriedOut, PageTypes
    <2> QED
      BY <1>1, <2>1, <2>2 DEF PageTypes, Vals
  <1> QED
    BY <1>2, <1>3, <1>4 DEF Next, vars, pageVars, Mount, Switch, Unmount, Again, ClearButton,
       ServerReads, Answered, Failed, GateAnswered, GateFailed, Socket, SendKey, Edit,
       TogglePerm, Save, Calls, CallOk, Acknowledged, CallFailed

LEMMA TruthStep == PageTypes /\ Truth /\ [Next]_vars => Truth'
  <1> SUFFICES ASSUME PageTypes, Truth, [Next]_vars PROVE Truth'
    OBVIOUS
  <1>1. kind.sends # "whole" => \A s \in Subjects, k \in Keys : data[s][k] <= data'[s][k]
    BY Grows
  <1>2. /\ clock \in Nat
        /\ \A s \in Subjects, k \in Keys : data[s][k] \in 0 .. clock /\ acked[s][k] \in 0 .. clock
    BY PagesAssumption DEF PageTypes, Vals
  <1>3. \A s \in Subjects, k \in Keys : data'[s][k] \in Nat
    <2>1. PageTypes'
      BY TypesStep
    <2> QED
      BY <2>1, PagesAssumption DEF PageTypes, Vals
  <1>4. act # None => act.of \in Subjects /\ act.keys \subseteq Keys /\ act.done \in (0 .. clock) \cup {None}
    BY DEF PageTypes, CallRecs
  <1>5. ASSUME UNCHANGED <<kind, acked>>, act' \in {act, None} PROVE Truth'
    BY <1>1, <1>2, <1>3, <1>4, <1>5 DEF Truth, Before
  <1>6. ASSUME NEW k \in Parts, SendKey(k) \/ TogglePerm(k) \/ Edit(k) PROVE Truth'
    BY <1>6 DEF SendKey, TogglePerm, Edit, Calls, Call, Truth
  <1>7. CASE Save
    BY <1>7 DEF Save, Calls, Call, Truth
  <1>8. CASE CarriedOut
    <2>1. /\ act # None /\ act' = [act EXCEPT !.done = clock + 1] /\ UNCHANGED <<kind, acked>>
          /\ act \in CallRecs
      BY <1>8 DEF CarriedOut, PageTypes
    <2>2. act'.base = act.base /\ act'.done = clock + 1 /\ act'.of = act.of /\ act'.keys = act.keys
      BY <2>1 DEF CallRecs
    <2>3. \A k \in act.keys : data'[act.of][k] = clock + 1
      BY <1>4, <1>8, <2>1 DEF CarriedOut, PageTypes
    <2>4. kind.sends # "whole" => \A s \in Subjects : Before(acked[s], data'[s])
      BY <1>1, <1>2, <1>3 DEF Truth, Before
    <2> QED
      BY <1>2, <2>1, <2>2, <2>3, <2>4 DEF Truth
  <1>9. CASE CallOk
    <2>1. /\ act # None /\ act.done # None /\ act' = None /\ UNCHANGED <<kind, data>>
          /\ acked' = [acked EXCEPT ![act.of] =
                         [k \in Keys |-> IF k \in act.keys THEN act.done ELSE acked[act.of][k]]]
      BY <1>4, <1>9 DEF CallOk, Acknowledged, PageTypes
    <2> QED
      BY <1>4, <2>1 DEF Truth, Before, PageTypes
  <1> QED
    BY <1>5, <1>6, <1>7, <1>8, <1>9 DEF Next, vars, pageVars, Mount, Switch, Unmount, Again,
       OthersWrite, ClearButton, ServerReads, Answered, Failed, GateAnswered, GateFailed, Socket,
       CallFailed

-----------------------------------------------------------------------------
(* the order of loads *)

Reloading == "ok" \in kind.reloads

\* What a load in flight will show, and what the page shows, once it is the last.
Current(l) ==
    /\ kind.follows => l.of \in {subject, None}
    /\ Reloading /\ l.of # None /\ l.got # None => Before(acked[l.of], l.got)
Caught ==
    /\ kind.follows => shown.of = subject
    /\ Reloading /\ shown.of # None => Before(acked[shown.of], shown.vals)
Excused == error \/ late \/ loading \/ Caught

\* Either the load that was started last is in flight and will put everything
\* right, or it is over, those in flight are late, and the page is right or says
\* that it may not be.
Newest == Len(loads) > 0 /\ ~loads[Len(loads)].late /\ Current(loads[Len(loads)])
Over == (\A i \in DOMAIN loads : loads[i].late) /\ Excused
Abreast == state = "on" /\ kind.tells => Newest \/ Over

\* The call before the first load is made once, and until another load succeeds
\* the page is loading.
Gate == \A i \in DOMAIN loads :
    loads[i].of = None => i = 1 /\ kind.gated /\ (loads[i].late \/ loading)
Spin == loading /\ ~kind.gated /\ state = "on" => loads # <<>>

Unseen == state = "off" => shown.of = None

Ordered == Abreast /\ Gate /\ Spin /\ Unseen

LEMMA AfterStart ==
  ASSUME PageTypes, Gate, NEW s \in Subjects, NEW spin, Start(s, spin),
         kind' = kind, subject' = s
  PROVE  Abreast' /\ Gate' /\ Spin'
  <1> DEFINE l == Load(s)
  <1>1. l.of = s /\ l.got = None /\ l.late = FALSE
    BY DEF Load
  <1> HIDE DEF l
  <1>2. /\ Len(loads) \in Nat /\ loads' = Append(loads, l) /\ Len(loads') = Len(loads) + 1
        /\ loads'[Len(loads')] = l /\ \A i \in DOMAIN loads : loads'[i] = loads[i]
        /\ DOMAIN loads' = 1 .. Len(loads) + 1 /\ DOMAIN loads = 1 .. Len(loads)
    <2>1. loads' = Append(loads, l)
      BY DEF Start, l
    <2> QED
      BY <2>1 DEF PageTypes
  <1>3. Newest'
    BY <1>1, <1>2 DEF Newest, Current, Reloading
  <1>4. Gate'
    <2>1. ASSUME NEW i \in DOMAIN loads', loads'[i].of = None
          PROVE  i = 1 /\ kind'.gated /\ (loads'[i].late \/ loading')
      <3>1. i # Len(loads) + 1
        BY <1>1, <1>2, <2>1, PagesAssumption
      <3>2. i \in DOMAIN loads /\ loads'[i] = loads[i]
        BY <1>2, <3>1
      <3> QED
        BY <2>1, <3>2 DEF Gate, Start
    <2> QED
      BY <2>1 DEF Gate
  <1>5. loads' # <<>>
    BY <1>2
  <1> QED
    BY <1>3, <1>4, <1>5 DEF Abreast, Spin

\* What is in flight after load i is over.
LEMMA Rest ==
  ASSUME PageTypes, Gate, NEW i \in DOMAIN loads
  PROVE  /\ Len(Without(i)) = Len(loads) - 1 /\ DOMAIN Without(i) = 1 .. Len(loads) - 1
         /\ Len(loads) \in Nat /\ i \in 1 .. Len(loads)
         /\ \A j \in 1 .. Len(loads) - 1 :
              /\ Without(i)[j].of = None => j = 1 /\ kind.gated /\ Without(i)[j].late
              /\ j < i => Without(i)[j].late
              /\ j >= i => Without(i)[j] = loads[j + 1]
  <1>1. /\ Without(i) \in Seq(LoadRecs) /\ Len(Without(i)) = Len(loads) - 1
        /\ \A j \in 1 .. Len(loads) - 1 :
             Without(i)[j] = IF j < i THEN [loads[j] EXCEPT !.late = TRUE] ELSE loads[j + 1]
    BY WithoutIs DEF PageTypes
  <1>2. Len(loads) \in Nat /\ DOMAIN loads = 1 .. Len(loads)
    BY DEF PageTypes
  <1>3. ASSUME NEW j \in 1 .. Len(loads) - 1
        PROVE  /\ Without(i)[j].of = None => j = 1 /\ kind.gated /\ Without(i)[j].late
               /\ j < i => Without(i)[j].late
               /\ j >= i => Without(i)[j] = loads[j + 1]
    <2>1. j \in DOMAIN loads /\ j + 1 \in DOMAIN loads /\ j + 1 # 1 /\ (j >= i <=> ~(j < i))
      BY <1>2
    <2>2. loads[j] \in LoadRecs
      BY <2>1, LoadsAre
    <2>3. [loads[j] EXCEPT !.late = TRUE].of = loads[j].of /\ [loads[j] EXCEPT !.late = TRUE].late
      BY <2>2 DEF LoadRecs
    <2> QED
      BY <1>1, <2>1, <2>3 DEF Gate
  <1> QED
    BY <1>1, <1>2, <1>3

LEMMA AfterOver ==
  ASSUME PageTypes, Gate, Abreast, NEW i \in DOMAIN loads, loads' = Without(i),
         UNCHANGED <<kind, subject, state, acked>>,
         kind.tells /\ Current(loads[i]) /\ ~loads[i].late /\ i = Len(loads) => Excused',
         kind.tells /\ Excused /\ loads[i].late => Excused'
  PROVE  Abreast' /\ Gate'
  <1>1. Gate'
    BY Rest DEF Gate
  <1>2. ASSUME state = "on", kind.tells, Newest, i = Len(loads) PROVE Over'
    BY <1>2, Rest DEF Newest, Over
  <1>3. ASSUME state = "on", kind.tells, Newest, i # Len(loads) PROVE Newest'
    <2>1. Len(loads) - 1 \in 1 .. Len(loads) - 1 /\ Len(loads) - 1 >= i
          /\ Len(loads) - 1 + 1 = Len(loads)
      BY <1>3, Rest
    <2>2. loads'[Len(loads')] = loads[Len(loads)] /\ Len(loads') > 0
      <3>1. Len(loads') = Len(loads) - 1
        BY Rest
      <3>2. Without(i)[Len(loads) - 1] = loads[Len(loads) - 1 + 1]
        BY <2>1, Rest
      <3> QED
        BY <2>1, <3>1, <3>2
    <2> QED
      BY <1>3, <2>2 DEF Newest, Current, Reloading
  <1>4. ASSUME state = "on", kind.tells, Over PROVE Over'
    <2>1. \A j \in DOMAIN Without(i) : Without(i)[j].late
      BY <1>4, Rest DEF Over, PageTypes
    <2> QED
      BY <1>4, <2>1 DEF Over
  <1> QED
    BY <1>1, <1>2, <1>3, <1>4 DEF Abreast

LEMMA OrderStep == PageTypes /\ Truth /\ Ordered /\ [Next]_vars => Ordered'
  <1> SUFFICES ASSUME PageTypes, Truth, Ordered, [Next]_vars PROVE Ordered'
    OBVIOUS
  <1> USE KindFacts DEF Ordered
  <1>0. Unseen'
    <2>1. CASE UNCHANGED <<state, shown>>
      BY <2>1 DEF Unseen
    <2>2. CASE \E i \in DOMAIN loads : Answered(i) \/ Failed(i)
      BY <2>2 DEF Answered, Failed, PageTypes, Unseen
    <2>3. CASE Unmount \/ \E s \in Subjects : Mount(s)
      BY <2>3 DEF Unmount, Mount, Unseen
    <2> QED
      BY <2>1, <2>2, <2>3 DEF Next, vars, pageVars, Switch, Again, OthersWrite, ClearButton,
         ServerReads, GateAnswered, GateFailed, Socket, SendKey, Edit, TogglePerm, Save, Calls,
         CarriedOut, CallOk, Acknowledged, CallFailed
  <1>1. kind \in Kinds /\ (state = "on" => subject \in Subjects) /\ None \notin Subjects
        /\ (state # "on" => loads = <<>>)
    BY PagesAssumption DEF PageTypes
  <1>2. ASSUME UNCHANGED <<kind, state, subject, shown, loading, error, loads, late>>,
               acked' = acked \/ ~Reloading \/ state # "on"
        PROVE  (Abreast /\ Gate /\ Spin)'
    <2>1. Gate' /\ Spin'
      BY <1>2 DEF Gate, Spin
    <2>2. Abreast'
      BY <1>2 DEF Abreast, Newest, Over, Excused, Caught, Current, Reloading
    <2> QED
      BY <2>1, <2>2
  <1>3. ASSUME NEW s \in Subjects, Mount(s) PROVE (Abreast /\ Gate /\ Spin)'
    <2>1. CASE kind.mounts
      <3>1. /\ Len(loads') = 1 /\ DOMAIN loads' = {1} /\ ~loads'[1].late /\ loading'
            /\ loads'[1].got = None /\ loads'[1].of \in {subject', None}
            /\ loads'[1].of = None => kind.gated
            /\ kind' = kind
        BY <1>1, <1>3, <2>1 DEF Mount, Load
      <3>2. Newest' /\ Gate' /\ loads' # <<>>
        BY <3>1 DEF Newest, Gate, Current
      <3> QED
        BY <3>2 DEF Abreast, Spin
    <2>2. CASE ~kind.mounts
      <3>1. /\ loads' = <<>> /\ loading' = FALSE /\ kind' = kind /\ ~kind.follows
            /\ UNCHANGED <<shown, error, late, acked, data>>
        BY <1>1, <1>3, <2>2 DEF Mount, Regular
      <3>2. state = "off"
        BY <1>3 DEF Mount
      <3> QED
        BY <1>0, <3>1, <3>2 DEF Abreast, Over, Excused, Caught, Gate, Spin, Unseen, Reloading
    <2> QED
      BY <2>1, <2>2
  <1>4. ASSUME NEW s \in Subjects, Switch(s) PROVE (Abreast /\ Gate /\ Spin)'
    <2>1. CASE kind.follows
      BY <1>4, <2>1, AfterStart DEF Switch
    <2>2. CASE ~kind.follows
      <3>1. UNCHANGED <<kind, state, shown, loading, error, loads, late, acked>>
        BY <1>4, <2>2 DEF Switch, NoStart
      <3>2. Gate' /\ Spin'
        BY <3>1 DEF Gate, Spin
      <3>3. Abreast'
        BY <2>2, <3>1 DEF Abreast, Newest, Over, Excused, Caught, Current, Reloading
      <3> QED
        BY <3>2, <3>3
    <2> QED
      BY <2>1, <2>2
  <1>5. ASSUME Unmount
        PROVE  (Abreast /\ Gate /\ Spin)'
    BY <1>5 DEF Unmount, Abreast, Gate, Spin
  <1>6. ASSUME ClearButton \/ \E c \in Conns : Socket(c)
        PROVE  (Abreast /\ Gate /\ Spin)'
    BY <1>2, <1>6 DEF ClearButton, Socket, pageVars
  <1>7. ASSUME Again
        PROVE  (Abreast /\ Gate /\ Spin)'
    BY <1>1, <1>7, AfterStart DEF Again
  <1>8. ASSUME \E s \in Subjects, k \in Parts : OthersWrite(s, k)
        PROVE  (Abreast /\ Gate /\ Spin)'
    BY <1>2, <1>8 DEF OthersWrite
  <1>9. ASSUME NEW i \in DOMAIN loads, ServerReads(i) PROVE (Abreast /\ Gate /\ Spin)'
    <2>1. /\ UNCHANGED <<kind, state, subject, shown, loading, error, late, acked>>
          /\ Len(loads') = Len(loads) /\ DOMAIN loads' = DOMAIN loads
          /\ \A j \in DOMAIN loads : loads'[j].of = loads[j].of /\ loads'[j].late = loads[j].late
          /\ \A j \in DOMAIN loads \ {i} : loads'[j] = loads[j]
          /\ loads[i].of # None => loads'[i].got = data[loads[i].of]
      BY <1>9, LoadsAre DEF ServerReads, PageTypes, LoadRecs
    <2>2. Gate' /\ Spin'
      BY <2>1 DEF Gate, Spin, PageTypes
    <2>3. ASSUME kind.tells, Current(loads[i]) PROVE Current(loads[i])'
      <3>1. loads[i].of # None => Before(acked[loads[i].of], data[loads[i].of])
        BY <1>1, <2>3, LoadsAre DEF Truth, Regular, LoadRecs
      <3> QED
        BY <2>1, <2>3, <3>1 DEF Current, Reloading, Before
    <2>4. ASSUME NEW j \in DOMAIN loads, kind.tells, Current(loads[j]) PROVE Current(loads[j])'
      BY <2>1, <2>3, <2>4 DEF Current, Reloading, Before
    <2>5. Abreast'
      <3>1. ASSUME kind.tells, Newest PROVE Newest'
        BY <2>1, <2>4, <3>1 DEF Newest, PageTypes
      <3>2. ASSUME Over PROVE Over'
        BY <2>1, <3>2 DEF Over, Excused, Caught, Reloading, Before
      <3> QED
        BY <2>1, <3>1, <3>2 DEF Abreast
    <2> QED
      BY <2>2, <2>5
  <1>10. ASSUME NEW i \in DOMAIN loads, Answered(i) PROVE (Abreast /\ Gate /\ Spin)'
    <2>1. /\ loads' = Without(i) /\ UNCHANGED <<kind, subject, state, acked>>
          /\ loads[i].got # None /\ loads[i].of # None /\ late' = loads[i].late /\ loading' = FALSE
          /\ shown'.of = loads[i].of /\ shown'.vals = loads[i].got
      BY <1>10 DEF Answered
    <2>2. Current(loads[i]) => Caught'
      BY <2>1 DEF Current, Caught, Reloading, Before
    <2>3. Abreast' /\ Gate'
      BY <2>1, <2>2, AfterOver DEF Excused
    <2> QED
      BY <2>1, <2>3 DEF Spin
  <1>11. ASSUME NEW i \in DOMAIN loads, Failed(i) PROVE (Abreast /\ Gate /\ Spin)'
    <2>1. /\ loads' = Without(i) /\ UNCHANGED <<kind, subject, state, acked>>
          /\ loading' = FALSE /\ error' = (error \/ kind.tells)
      BY <1>11 DEF Failed
    <2>2. Abreast' /\ Gate'
      BY <2>1, AfterOver DEF Excused
    <2> QED
      BY <2>1, <2>2 DEF Spin
  <1>12. ASSUME NEW i \in DOMAIN loads, GateAnswered(i) PROVE (Abreast /\ Gate /\ Spin)'
    <2>1. /\ loads' = Append(Without(i), Load(subject)) /\ loading' = TRUE /\ loads[i].of = None
          /\ UNCHANGED <<kind, subject, state, acked>>
      BY <1>12 DEF GateAnswered
    <2>2. i = 1 /\ state = "on" /\ subject \in Subjects
      BY <1>1, <2>1 DEF Gate
    <2>3. /\ Without(i) \in Seq(LoadRecs) /\ Len(Without(i)) = Len(loads) - 1
          /\ \A j \in 1 .. Len(loads) - 1 : Without(i)[j].of = None => j = 1 /\ kind.gated
      BY Rest, WithoutIs DEF PageTypes
    <2> DEFINE l == Load(subject)
    <2>4. l.of = subject /\ l.got = None /\ l.late = FALSE
      BY DEF Load
    <2> HIDE DEF l
    <2>5. /\ Len(loads') = Len(loads) /\ Len(loads) \in Nat \ {0} /\ loads'[Len(loads')] = l
          /\ \A j \in 1 .. Len(loads) - 1 : loads'[j] = Without(i)[j]
          /\ DOMAIN loads' = 1 .. Len(loads)
      <3>1. loads' = Append(Without(i), l)
        BY <2>1 DEF l
      <3>2. Len(loads) \in Nat \ {0}
        BY DEF PageTypes
      <3> QED
        BY <2>3, <3>1, <3>2
    <2>6. Newest' /\ loads' # <<>>
      BY <2>1, <2>4, <2>5 DEF Newest, Current
    <2>7. Gate'
      <3>1. ASSUME NEW j \in DOMAIN loads', loads'[j].of = None PROVE j = 1 /\ kind.gated
        BY <1>1, <2>2, <2>3, <2>4, <2>5, <3>1
      <3> QED
        BY <2>1, <3>1 DEF Gate
    <2> QED
      BY <2>6, <2>7 DEF Abreast, Spin
  <1>13. ASSUME NEW i \in DOMAIN loads, GateFailed(i) PROVE (Abreast /\ Gate /\ Spin)'
    <2>1. /\ loads' = Without(i) /\ loads[i].of = None
          /\ UNCHANGED <<kind, subject, state, acked, shown, loading, error, late>>
      BY <1>13 DEF GateFailed
    <2>2. kind.gated /\ (loads[i].late \/ loading)
      BY <2>1 DEF Gate
    <2>3. Abreast' /\ Gate'
      BY <2>1, <2>2, AfterOver DEF Excused, Caught, Reloading, Before
    <2> QED
      BY <2>1, <2>2, <2>3 DEF Spin
  <1>14. ASSUME (\E k \in Parts : SendKey(k) \/ Edit(k) \/ TogglePerm(k)) \/ Save \/ CarriedOut
        PROVE  (Abreast /\ Gate /\ Spin)'
    BY <1>2, <1>14 DEF SendKey, Edit, TogglePerm, Save, Calls, CarriedOut
  <1>15. ASSUME CallOk
        PROVE  (Abreast /\ Gate /\ Spin)'
    <2>1. CASE state = "on" /\ Reloading
      BY <1>1, <1>15, <2>1, AfterStart DEF CallOk, Acknowledged, Reloading
    <2>2. CASE ~(state = "on" /\ Reloading)
      BY <1>2, <1>15, <2>2 DEF CallOk, Acknowledged, Reloading, NoStart
    <2> QED
      BY <2>1, <2>2
  <1>16. ASSUME CallFailed
        PROVE  (Abreast /\ Gate /\ Spin)'
    <2>1. CASE state = "on" /\ Start(subject, kind.spins)
      BY <1>1, <1>16, <2>1, AfterStart DEF CallFailed
    <2>2. CASE NoStart
      BY <1>2, <1>16, <2>2 DEF CallFailed, NoStart
    <2> QED
      BY <1>16, <2>1, <2>2 DEF CallFailed
  <1>17. ASSUME UNCHANGED vars
        PROVE  (Abreast /\ Gate /\ Spin)'
    BY <1>2, <1>17 DEF vars, pageVars
  <1> QED
    BY <1>0, <1>3, <1>4, <1>5, <1>6, <1>7, <1>8, <1>9, <1>10, <1>11, <1>12, <1>13, <1>14, <1>15,
       <1>16, <1>17 DEF Next

-----------------------------------------------------------------------------
Inv == Types /\ Socketed /\ Truth /\ Ordered

LEMMA InitInv == Init => Inv
  <1> SUFFICES ASSUME Init PROVE Inv
    OBVIOUS
  <1> USE PagesAssumption, StreamAssumption DEF Init, SockInit
  <1>1. Types /\ Socketed
    <2>1. SockTypes /\ Socketed
      BY DEF SockTypes, Socketed, HeldOrEnding, Live, Own
    <2>2. Blank \in Vals
      BY DEF Blank, Vals
    <2>3. PageTypes
      <3>1. data \in [Subjects -> Vals] /\ acked \in [Subjects -> Vals]
        BY <2>2
      <3>2. shown \in [of : Subjects \cup {None}, vals : Vals]
        BY <2>2 DEF Nothing
      <3>3. loads \in Seq(LoadRecs) /\ Len(loads) <= MaxLoads
        OBVIOUS
      <3>4. /\ kind \in Kinds /\ state = "off" /\ subject = None /\ loads = <<>> /\ act = None
            /\ edited \subseteq Keys
        OBVIOUS
      <3>5. clock \in 0 .. MaxWrites
        OBVIOUS
      <3>6. loading \in BOOLEAN /\ error \in BOOLEAN /\ late \in BOOLEAN
        OBVIOUS
      <3> HIDE DEF Init
      <3> QED
        BY <3>1, <3>2, <3>3, <3>4, <3>5, <3>6 DEF PageTypes
    <2> QED
      BY <2>1, <2>3 DEF Types
  <1>2. Truth /\ Ordered
    BY DEF Truth, Before, Ordered, Abreast, Gate, Spin, Unseen, Blank, Nothing
  <1> QED
    BY <1>1, <1>2 DEF Inv

LEMMA StepInv == Inv /\ [Next]_vars => Inv'
  BY SocketStep, TypesStep, TruthStep, OrderStep DEF Inv, Types, Socketed

\* Types hold throughout, and a page that is not mounted has no call in flight
\* (Dashboard.vue:50-53, SlotDetail.vue:107-110).
THEOREM TypeCorrect == Spec => []TypeOK
  <1>1. Inv => TypeOK
    <2> SUFFICES ASSUME Inv PROVE TypeOK
      OBVIOUS
    <2>1. Vals \subseteq [Keys -> 0 .. MaxWrites]
      BY PagesAssumption DEF Inv, Types, PageTypes, Vals
    <2> QED
      BY <2>1 DEF Inv, Types, SockTypes, PageTypes, TypeOK
  <1> QED
    BY InitInv, StepInv, <1>1, PTL DEF Spec

\* Only the socket of the handle is alive, unless a late close event took the
\* handle away (LogStream.vue:30,45, SlotDetail.vue:64,66).
THEOREM OneSocket == Spec => []HeldOrEnding
  <1>1. Inv => HeldOrEnding
    BY DEF Inv, Socketed
  <1> QED
    BY InitInv, StepInv, <1>1, PTL DEF Spec

\* Every line of the log view is from the slot it shows, with the same exception
\* (LogStream.vue:72).
THEOREM LinesOfOneSlot == Spec => []OwnLines
  <1>1. Inv => OwnLines
    BY DEF Inv, Socketed, Own, OwnLines
  <1> QED
    BY InitInv, StepInv, <1>1, PTL DEF Spec

\* "live" only while a socket is open, a spinner only while a call is in flight,
\* but on the audit log (LogStream.vue:29-30,47, AuditLog.vue:43-46).
THEOREM IndicatorsHold == Spec => []IndicatorsTrue
  <1>1. Inv => IndicatorsTrue
    BY DEF Inv, Socketed, Ordered, Spin, IndicatorsTrue
  <1> QED
    BY InitInv, StepInv, <1>1, PTL DEF Spec

\* A page that loads on a switch ends up with the right subject, unless it shows
\* an error or an older load was answered last (SlotDetail.vue:111-115).
THEOREM RightSubjectHolds == Spec => []RightSubject
  <1>1. Inv => RightSubject
    <2> SUFFICES ASSUME Inv, Settled, kind.follows PROVE shown.of = subject
      BY DEF RightSubject
    <2>1. kind.tells
      BY KindFacts DEF Inv, Types, PageTypes, Regular
    <2> QED
      BY <2>1 DEF Inv, Ordered, Abreast, Newest, Over, Excused, Caught, Settled
  <1> QED
    BY InitInv, StepInv, <1>1, PTL DEF Spec

\* Under the same condition a page that tells of failed loads shows the user's
\* own acknowledged changes (PanelWhitelist.vue:32-45).
THEOREM OwnActsSeen == Spec => []SeesOwnActs
  <1>1. Inv => SeesOwnActs
    <2> SUFFICES ASSUME Inv, Settled, kind.tells, Reloading, shown.of = subject, NEW k \in Keys
                 PROVE  shown.vals[k] >= acked[subject][k]
      BY DEF SeesOwnActs, Reloading
    <2>1. subject \in Subjects /\ subject # None
      BY PagesAssumption DEF Inv, Types, PageTypes, Settled
    <2>2. Before(acked[subject], shown.vals)
      BY <2>1 DEF Inv, Ordered, Abreast, Newest, Over, Excused, Caught, Settled
    <2>3. acked[subject][k] \in Nat /\ shown.vals[k] \in Nat
      BY <2>1, PagesAssumption DEF Inv, Types, PageTypes, Vals
    <2> QED
      BY <2>2, <2>3 DEF Before
  <1> QED
    BY InitInv, StepInv, <1>1, PTL DEF Spec

\* No call takes back what another user wrote since the page loaded, but on the
\* grants page (PanelProperties.vue:34-47, UserGrants.vue:62-92).
THEOREM NothingReverted == Spec => NoRevert
  <1> DEFINE Grown == kind.sends # "whole" =>
               \A s \in Subjects, k \in Keys : data'[s][k] >= data[s][k]
  <1>1. Inv /\ [Next]_vars => [Grown]_vars
    <2> SUFFICES ASSUME Inv, [Next]_vars, kind.sends # "whole", NEW s \in Subjects, NEW k \in Keys
                 PROVE  data'[s][k] >= data[s][k]
      OBVIOUS
    <2>1. data[s][k] <= data'[s][k]
      BY Grows DEF Inv, Types
    <2>2. data[s][k] \in Nat /\ data'[s][k] \in Nat
      BY StepInv, PagesAssumption DEF Inv, Types, PageTypes, Vals
    <2> QED
      BY <2>1, <2>2
  <1> QED
    BY InitInv, StepInv, <1>1, PTL DEF Spec, NoRevert, Grown

-----------------------------------------------------------------------------
(* timers *)

\* A call whose answer is, or will be, about what the page is no longer about,
\* or older than the data.
Stale(i) == loads[i].of # subject \/ loads[i].got \notin {None, data[subject]}
NothingStale == \A i \in DOMAIN loads : ~Stale(i)

\* The user stays, and nobody writes.
Calm == UNCHANGED <<data, subject>>
SomeAnswer == \E i \in DOMAIN loads : Answered(i)
Right == shown = [of |-> subject, vals |-> data[subject]]

LEMMA StaleStart ==
  ASSUME PageTypes, NothingStale, Calm, NEW spin, Start(subject, spin)
  PROVE  NothingStale'
  <1> DEFINE l == Load(subject)
  <1>1. l.of = subject /\ l.got = None
    BY DEF Load
  <1> HIDE DEF l
  <1>2. loads' = Append(loads, l)
    BY DEF Start, l
  <1>3. /\ DOMAIN loads' = 1 .. Len(loads) + 1 /\ loads'[Len(loads) + 1] = l
        /\ \A i \in 1 .. Len(loads) : loads'[i] = loads[i]
        /\ DOMAIN loads = 1 .. Len(loads) /\ Len(loads) \in Nat
    BY <1>2 DEF PageTypes
  <1>4. ASSUME NEW i \in DOMAIN loads' PROVE ~Stale(i)'
    <2>1. CASE i \in DOMAIN loads
      BY <1>3, <2>1 DEF Calm, NothingStale, Stale
    <2>2. CASE i = Len(loads) + 1
      BY <1>1, <1>3, <2>2 DEF Calm, Stale
    <2> QED
      BY <1>3, <2>1, <2>2
  <1> QED
    BY <1>4 DEF NothingStale

LEMMA StaleOver ==
  ASSUME PageTypes, NothingStale, Calm, NEW i \in DOMAIN loads, loads' = Without(i)
  PROVE  NothingStale'
  <1>1. /\ Len(loads') = Len(loads) - 1 /\ loads' \in Seq(LoadRecs)
        /\ \A j \in 1 .. Len(loads) - 1 :
             loads'[j] = IF j < i THEN [loads[j] EXCEPT !.late = TRUE] ELSE loads[j + 1]
    BY WithoutIs DEF PageTypes
  <1>2. DOMAIN loads = 1 .. Len(loads) /\ Len(loads) \in Nat /\ DOMAIN loads' = 1 .. Len(loads) - 1
    BY <1>1 DEF PageTypes
  <1>3. ASSUME NEW j \in DOMAIN loads' PROVE ~Stale(j)'
    <2>1. j \in DOMAIN loads /\ j + 1 \in DOMAIN loads
      BY <1>2
    <2>2. \E k \in DOMAIN loads : loads'[j].of = loads[k].of /\ loads'[j].got = loads[k].got
      BY <1>1, <1>2, <2>1, LoadsAre DEF LoadRecs
    <2> QED
      BY <2>2 DEF Calm, NothingStale, Stale
  <1> QED
    BY <1>3 DEF NothingStale

\* While the data and the subject rest, no call becomes stale.
LEMMA StaysFresh == Inv /\ kind.polls /\ NothingStale /\ [Next /\ Calm]_vars => NothingStale'
  <1> SUFFICES ASSUME Inv, kind.polls, NothingStale, [Next /\ Calm]_vars PROVE NothingStale'
    OBVIOUS
  <1>0. /\ PageTypes /\ Gate /\ Regular(kind) /\ None \notin Subjects
        /\ Calm /\ (Next \/ UNCHANGED vars)
    BY KindFacts, PagesAssumption
       DEF Inv, Types, PageTypes, Ordered, Calm, vars, pageVars
  <1>1. ASSUME UNCHANGED loads PROVE NothingStale'
    BY <1>0, <1>1 DEF Calm, NothingStale, Stale
  <1>2. ASSUME NEW s \in Subjects, Mount(s) PROVE NothingStale'
    <2>1. s = subject /\ ~kind.gated
      BY <1>0, <1>2 DEF Mount, Calm, Regular
    <2>2. loads' = <<Load(s)>> \/ loads' = <<>>
      BY <1>2, <2>1 DEF Mount
    <2>3. Load(s).of = s /\ Load(s).got = None
      BY DEF Load
    <2>4. \A i \in DOMAIN loads' : loads'[i] = Load(s)
      BY <2>2
    <2> QED
      BY <1>0, <2>1, <2>3, <2>4 DEF Calm, NothingStale, Stale
  <1>3. ASSUME NEW s \in Subjects, Switch(s) PROVE FALSE
    BY <1>0, <1>3 DEF Switch, Calm
  <1>4. ASSUME NEW i \in DOMAIN loads, ServerReads(i) PROVE NothingStale'
    <2>1. loads[i].of = subject /\ subject # None
      BY <1>0 DEF NothingStale, Stale, PageTypes
    <2>2. /\ DOMAIN loads' = DOMAIN loads /\ \A j \in DOMAIN loads \ {i} : loads'[j] = loads[j]
          /\ loads'[i].of = subject /\ loads'[i].got = data[subject]
      BY <1>0, <1>4, <2>1, LoadsAre DEF ServerReads, LoadRecs, PageTypes
    <2>3. ASSUME NEW j \in DOMAIN loads' PROVE ~Stale(j)'
      BY <1>0, <2>2 DEF Calm, NothingStale, Stale
    <2> QED
      BY <2>3 DEF NothingStale
  <1>5. ASSUME NEW i \in DOMAIN loads, Answered(i) \/ Failed(i) \/ GateFailed(i)
        PROVE  NothingStale'
    BY <1>0, <1>5, StaleOver DEF Answered, Failed, GateFailed
  <1>6. ASSUME NEW i \in DOMAIN loads, GateAnswered(i) PROVE FALSE
    BY <1>0, <1>6 DEF GateAnswered, Gate, Regular
  <1>7. ASSUME Again PROVE NothingStale'
    BY <1>0, <1>7, StaleStart DEF Again
  <1>8. ASSUME CallOk \/ CallFailed PROVE NothingStale'
    BY <1>0, <1>1, <1>8, StaleStart DEF CallOk, CallFailed, NoStart
  <1>9. ASSUME Unmount PROVE NothingStale'
    <2>1. DOMAIN loads' = {}
      BY <1>9 DEF Unmount
    <2> QED
      BY <2>1 DEF NothingStale
  <1>10. ASSUME \/ ClearButton \/ Save \/ CarriedOut \/ UNCHANGED vars
                \/ \E c \in Conns : Socket(c)
                \/ \E k \in Parts : SendKey(k) \/ Edit(k) \/ TogglePerm(k)
                \/ \E s \in Subjects, k \in Parts : OthersWrite(s, k)
         PROVE  NothingStale'
    BY <1>1, <1>10 DEF ClearButton, Save, Calls, CarriedOut, vars, pageVars, Socket, SendKey, Edit,
       TogglePerm, OthersWrite
  <1> QED
    BY <1>0, <1>2, <1>3, <1>4, <1>5, <1>6, <1>7, <1>8, <1>9, <1>10 DEF Next

\* Then an answer sets the page right, and nothing sets it wrong.
LEMMA AnswerRights ==
  Inv /\ NothingStale /\ <<SomeAnswer>>_vars /\ [Next /\ Calm]_vars => Right'
  <1> SUFFICES ASSUME Inv, NothingStale, NEW i \in DOMAIN loads, Answered(i), [Next /\ Calm]_vars
               PROVE  Right'
    BY DEF SomeAnswer
  <1>1. loads[i].of = subject /\ loads[i].got = data[subject]
    BY DEF NothingStale, Stale, Answered
  <1>2. UNCHANGED <<data, subject>>
    BY DEF Answered
  <1> QED
    BY <1>1, <1>2 DEF Answered, Right

LEMMA StaysRight ==
  Inv /\ kind.polls /\ NothingStale /\ Right /\ [Next /\ Calm]_vars => Right'
  <1> SUFFICES ASSUME Inv, kind.polls, NothingStale, Right, [Next /\ Calm]_vars PROVE Right'
    OBVIOUS
  <1>0. Regular(kind) /\ Calm /\ (Next \/ UNCHANGED vars)
    BY KindFacts DEF Inv, Types, PageTypes, Calm, vars, pageVars
  <1>1. ASSUME NEW i \in DOMAIN loads, Answered(i) PROVE Right'
    <2>1. loads[i].of = subject /\ loads[i].got = data[subject]
      BY <1>1 DEF NothingStale, Stale, Answered
    <2> QED
      BY <1>0, <1>1, <2>1 DEF Answered, Right, Calm
  <1>2. ASSUME NEW i \in DOMAIN loads, Failed(i) PROVE UNCHANGED shown
    BY <1>0, <1>2 DEF Failed, Regular
  <1>3. CASE UNCHANGED shown
    BY <1>0, <1>3 DEF Right, Calm
  <1> QED
    BY <1>0, <1>1, <1>2, <1>3 DEF Next, vars, pageVars, Mount, Switch, Unmount, Again, OthersWrite,
       ClearButton, ServerReads, GateAnswered, GateFailed, Socket, SendKey, Edit, TogglePerm, Save,
       Calls, CarriedOut, CallOk, Acknowledged, CallFailed

LEMMA KindStays == kind.polls /\ [Next]_vars => kind.polls'
  BY DEF Next, vars, pageVars, Mount, Switch, Unmount, Again, OthersWrite,
     ClearButton, ServerReads, Answered, Failed, GateAnswered, GateFailed, Socket, SendKey, Edit,
     TogglePerm, Save, Calls, CarriedOut, CallOk, Acknowledged, CallFailed

\* A page with a timer, when the data and the subject rest, every stale call is
\* over some day and some loads succeed: it shows what the server has, for good
\* (Dashboard.vue:49). That the stale calls, finitely many, are over is left to
\* PollHeals.
THEOREM AnswersHeal ==
  Spec /\ kind.polls /\ <>[][Calm]_vars /\ []<>NothingStale /\ []<><<SomeAnswer>>_vars
    => <>[]Right
  <1>1. Spec => []Inv
    BY InitInv, StepInv, PTL DEF Spec
  <1>2. Spec /\ kind.polls => []kind.polls
    BY KindStays, PTL DEF Spec
  <1> QED
    BY <1>1, <1>2, StaysFresh, AnswerRights, StaysRight, PTL DEF Spec
=============================================================================
