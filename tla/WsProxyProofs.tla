--------------------------- MODULE WsProxyProofs ---------------------------
(***************************************************************************)
(* Proofs about the WebSocket proxy, for any number of requests, slots and *)
(* servers.                                                                *)
(***************************************************************************)
EXTENDS WsProxy, TLAPS

-----------------------------------------------------------------------------
(* types *)

Seen == [admin : BOOLEAN, server : Servers \cup {None}]

LEMMA BlankType == Blank \in Seen
BY DEF Blank, Seen

LEMMA AdminType ==
    ASSUME NEW f \in [Conns -> Seen], NEW c \in Conns, NEW b \in BOOLEAN
    PROVE  [f EXCEPT ![c].admin = b] \in [Conns -> Seen]
BY DEF Seen

LEMMA NowType == ASSUME TypeOK, NEW s \in Slots PROVE Now(s) \in SUBSET Known
BY DEF TypeOK, Now, Known

LEMMA RecordedType ==
    ASSUME TypeOK, Recorded, caller' \subseteq Facts, mounted' \in [Slots -> Servers \cup {None}]
    PROVE  ever' \in [Conns -> SUBSET Known]
<1> SUFFICES ASSUME NEW c \in Conns
             PROVE  (IF pc[c] \in Reading
                     THEN ever[c] \cup caller' \cup {<<"mounted", mounted'[slotOf[c]]>>} ELSE ever[c])
                    \in SUBSET Known
  BY DEF Recorded
<1>1. ever[c] \in SUBSET Known
  BY DEF TypeOK
<1>2. pc[c] \in Reading => slotOf[c] \in Slots
  BY DEF TypeOK, Reading
<1>3. QED  BY <1>1, <1>2 DEF Known

LEMMA DownType == TypeOK /\ Down => TypeOK'
<1> SUFFICES ASSUME TypeOK, Down PROVE TypeOK'
  OBVIOUS
<1>1. pc' \in [Conns -> PCs] /\ saw' \in [Conns -> Seen]
  BY BlankType DEF TypeOK, Down, PCs
<1>2. cl' \in [Conns -> ReadyStates] /\ up' \in [Conns -> ReadyStates]
  BY DEF TypeOK, Down, ReadyStates
<1>3. \A c \in Conns : /\ (pc'[c] = "idle" /\ cl[c] = "none" /\ up[c] = "none") \/ pc'[c] = "over"
                       /\ cl[c] = "none" => cl'[c] = "none"
                       /\ up[c] = "none" => up'[c] = "none"
  BY DEF TypeOK, Down, PCs, Reading
<1>4. cut' \subseteq Conns
  BY DEF TypeOK, Down
<1>5. QED
  BY <1>1, <1>2, <1>3, <1>4 DEF TypeOK, Down, Seen, Reading, world

LEMMA AbortType ==
    ASSUME TypeOK, NEW c \in Conns, pc[c] \in Reading \cup {"dial"}, AbortHandshake(c),
           UNCHANGED <<process, left, world>>,
           up' = up \/ (up' = [up EXCEPT ![c] = "closed"] /\ pc[c] = "dial")
    PROVE  TypeOK'
BY DEF TypeOK, AbortHandshake, Goto, Blank, PCs, Reading, ReadyStates, process, world

LEMMA CloseBothType ==
    ASSUME TypeOK, NEW c \in Conns, pc[c] = "piped", NEW code,
           NEW client \in ReadyStates \ {"none"}, NEW upstream \in ReadyStates \ {"none"},
           CloseBoth(c, code, client, upstream)
    PROVE  TypeOK'
<1>1. CASE Down
  BY <1>1, DownType
<1>2. CASE /\ cl' = [cl EXCEPT ![c] = Closing(client)]
           /\ up' = [up EXCEPT ![c] = Closing(upstream)]
           /\ UNCHANGED <<process, pc, saw, ever, slotOf, left, cut, world>>
  <2>1. Closing(client) \in ReadyStates \ {"none"} /\ Closing(upstream) \in ReadyStates \ {"none"}
    BY DEF Closing, ReadyStates
  <2>2. QED  BY <1>2, <2>1 DEF TypeOK, Reading, process, world
<1>3. QED  BY <1>1, <1>2 DEF CloseBoth

\* Types hold throughout, and a request that is being read has no socket yet
\* while a piped stream has both (ws-proxy.ts:34-75).
THEOREM TypeCorrect == Spec => []TypeOK
<1>1. Init => TypeOK
  <2> SUFFICES ASSUME Init PROVE TypeOK
    OBVIOUS
  <2>1. saw \in [Conns -> Seen]
    BY BlankType DEF Init
  <2>2. caller \subseteq Facts /\ changes \in 0 .. MaxChanges
    BY ProxyAssumption DEF Init
  <2>3. pc \in [Conns -> PCs] /\ cl \in [Conns -> ReadyStates] /\ up \in [Conns -> ReadyStates]
    BY DEF Init, PCs, ReadyStates
  <2>4. QED  BY <2>1, <2>2, <2>3 DEF Init, TypeOK, Seen
<1>2. TypeOK /\ [Next]_vars => TypeOK'
  <2> SUFFICES ASSUME TypeOK, [Next]_vars PROVE TypeOK'
    OBVIOUS
  <2>1. ASSUME NEW c \in Conns, NEW s \in Slots, Upgrade(c, s) PROVE TypeOK'
    <3>1. ever' \in [Conns -> SUBSET Known]
      BY <2>1, NowType DEF Upgrade, TypeOK
    <3>2. QED
      BY <2>1, <3>1 DEF Upgrade, TypeOK, Goto, PCs, Reading, process, world
  <2>2. ASSUME NEW c \in Conns, Handler(c) PROVE TypeOK'
    <3>1. CASE SessionParsed(c)
      <4>1. CASE AbortHandshake(c)
        BY <3>1, <4>1, AbortType DEF SessionParsed, Reading
      <4>2. QED
        BY <3>1, <4>1 DEF SessionParsed, TypeOK, Goto, PCs, Reading, process, world
    <3>2. CASE UserFound(c)
      <4>1. CASE AbortHandshake(c)
        BY <3>2, <4>1, AbortType DEF UserFound, Reading
      <4>2. CASE ~AbortHandshake(c)
        <5>1. CASE /\ saw' = [saw EXCEPT ![c].admin = <<"is", "admin">> \in caller]
                   /\ Goto(c, "client") /\ UNCHANGED ever
          <6>1. saw' \in [Conns -> Seen]
            <7>1. (<<"is", "admin">> \in caller) \in BOOLEAN
              OBVIOUS
            <7>2. saw \in [Conns -> Seen]
              BY DEF TypeOK, Seen
            <7>3. [saw EXCEPT ![c].admin = <<"is", "admin">> \in caller] \in [Conns -> Seen]
              BY <7>1, <7>2, AdminType, Zenon
            <7>4. QED  BY <5>1, <7>3, Zenon
          <6>2. pc' = [pc EXCEPT ![c] = "client"]
            BY <5>1 DEF Goto
          <6>3. UNCHANGED <<process, slotOf, cl, up, left, cut, world>>
            BY <3>2, <4>2 DEF UserFound
          <6>4. QED
            <7>1. pc' \in [Conns -> PCs] /\ ever' = ever
              BY <3>2, <5>1, <4>2, <6>2 DEF UserFound, TypeOK, PCs, Reading
            <7>2. QED
              BY <3>2, <6>1, <6>2, <6>3, <7>1 DEF UserFound, TypeOK, Seen, Reading, process, world
        <5>2. QED  BY <3>2, <4>2, <5>1 DEF UserFound
      <4>3. QED  BY <4>1, <4>2
    <3>3. CASE ClientFound(c)
      <4>1. CASE AbortHandshake(c)
        BY <3>3, <4>1, AbortType DEF ClientFound, Reading
      <4>2. QED
        BY <3>3, <4>1 DEF ClientFound, TypeOK, Goto, PCs, Reading, process, world
    <3>4. CASE SlotSeen(c)
      <4>1. saw' \in [Conns -> Seen]
        <5>1. mounted[slotOf[c]] \in Servers \cup {None}
          BY <3>4 DEF SlotSeen, TypeOK, Reading
        <5>2. QED  BY <3>4, <5>1 DEF SlotSeen, TypeOK, Seen
      <4>2. QED  BY <3>4, <4>1 DEF SlotSeen, TypeOK, Seen, Goto, PCs, Reading, process, world
    <3>5. CASE GrantChecked(c)
      <4>1. CASE AbortHandshake(c) /\ UNCHANGED up
        BY <3>5, <4>1, AbortType DEF GrantChecked, Reading
      <4>2. QED
        <5>1. CASE MayObserve(c) /\ Dial(c) /\ saw' = [saw EXCEPT ![c] = Blank] /\ UNCHANGED <<slotOf, cl, cut>>
          <6>1. saw' \in [Conns -> Seen]
            BY <5>1, BlankType DEF TypeOK, Seen
          <6>2. pc' = [pc EXCEPT ![c] = "dial"] /\ up' = [up EXCEPT ![c] = "connecting"]
            BY <5>1 DEF Dial, Goto
          <6>3. QED
            BY <3>5, <5>1, <6>1, <6>2 DEF GrantChecked, TypeOK, Seen, PCs, Reading, ReadyStates, process, world
        <5>2. QED  BY <3>5, <4>1, <5>1 DEF GrantChecked
    <3>6. CASE DatabaseFails(c)
      BY <3>6, DownType DEF DatabaseFails
    <3>7. CASE UpstreamOpen(c)
      <4>1. pc[c] = "dial" /\ up' = [up EXCEPT ![c] = "open"]
            /\ UNCHANGED <<process, slotOf, saw, left, cut, world, ever>>
        BY <3>7 DEF UpstreamOpen
      <4>2. up' \in [Conns -> ReadyStates] /\ up'[c] # "none"
            /\ \A d \in Conns \ {c} : up'[d] = up[d]
        BY <4>1 DEF TypeOK, ReadyStates
      <4>3. CASE pc' = [pc EXCEPT ![c] = "piped"] /\ cl' = [cl EXCEPT ![c] = "open"]
        <5>1. pc' \in [Conns -> PCs] /\ cl' \in [Conns -> ReadyStates] /\ cl'[c] # "none"
              /\ pc'[c] = "piped" /\ \A d \in Conns \ {c} : pc'[d] = pc[d] /\ cl'[d] = cl[d]
          BY <4>3 DEF TypeOK, PCs, ReadyStates
        <5>2. QED  BY <4>1, <4>2, <5>1 DEF TypeOK, Reading, process, world
      <4>4. CASE pc' = [pc EXCEPT ![c] = "over"] /\ cl' = cl
        <5>1. pc' \in [Conns -> PCs] /\ pc'[c] = "over" /\ \A d \in Conns \ {c} : pc'[d] = pc[d]
          BY <4>4 DEF TypeOK, PCs
        <5>2. QED  BY <4>1, <4>2, <4>4, <5>1 DEF TypeOK, Reading, process, world
      <4>5. QED  BY <3>7, <4>3, <4>4 DEF UpstreamOpen, Goto
    <3>8. CASE UpstreamFails(c)
      BY <3>8, AbortType DEF UpstreamFails
    <3>9. QED
      BY <2>2, <3>1, <3>2, <3>3, <3>4, <3>5, <3>6, <3>7, <3>8 DEF Handler
  <2>3. ASSUME NEW c \in Conns, Stream(c) PROVE TypeOK'
    <3>1. CASE ClientClosed(c)
      <4>1. pc[c] = "piped" /\ up[c] \in ReadyStates \ {"none"} /\ "closed" \in ReadyStates \ {"none"}
        BY <3>1 DEF ClientClosed, TypeOK, ReadyStates
      <4>2. PICK code : CloseBoth(c, code, "closed", up[c])
        BY <3>1 DEF ClientClosed
      <4>3. QED  BY <4>1, <4>2, CloseBothType
    <3>2. CASE UpstreamClosed(c)
      <4>1. pc[c] = "piped" /\ cl[c] \in ReadyStates \ {"none"} /\ "closed" \in ReadyStates \ {"none"}
        BY <3>2 DEF UpstreamClosed, TypeOK, ReadyStates
      <4>2. PICK code : CloseBoth(c, code, cl[c], "closed")
        BY <3>2 DEF UpstreamClosed
      <4>3. QED  BY <4>1, <4>2, CloseBothType
    <3>3. CASE UpstreamError(c)
      <4>1. Closing(cl[c]) \in ReadyStates /\ (cl[c] # "none" => Closing(cl[c]) # "none")
        BY DEF Closing, TypeOK, ReadyStates
      <4>2. QED
        BY <3>3, <4>1 DEF UpstreamError, TypeOK, ReadyStates, Reading, process, handlers, world
    <3>4. CASE OrphanClosed(c)
      BY <3>4 DEF OrphanClosed, TypeOK, ReadyStates, Reading, process, handlers, world
    <3>5. CASE ClientError(c)
      <4>1. pc[c] = "piped" /\ up[c] \in ReadyStates \ {"none"} /\ "closing" \in ReadyStates \ {"none"}
        BY <3>5 DEF ClientError, TypeOK, ReadyStates
      <4>2. QED  BY <3>5, <4>1, CloseBothType DEF ClientError
    <3>6. QED  BY <2>3, <3>1, <3>2, <3>3, <3>4, <3>5 DEF Stream
  <2>4. ASSUME NEW c \in Conns, Leaves(c) \/ NetworkLost(c) \/ ConnectionReset(c) PROVE TypeOK'
    <3>1. CASE Leaves(c)
      BY <3>1 DEF Leaves, TypeOK, process, handlers, world
    <3>2. CASE NetworkLost(c)
      BY <3>2 DEF NetworkLost, TypeOK, process, handlers, world
    <3>3. CASE ConnectionReset(c)
      BY <3>3, DownType DEF ConnectionReset
    <3>4. QED  BY <2>4, <3>1, <3>2, <3>3
  <2>5. CASE Shutdown
    BY <2>5, DownType DEF Shutdown, TypeOK, handlers, world
  <2>6. CASE Drained \/ HardKill
    BY <2>6, DownType DEF Drained, HardKill
  <2>7. CASE Boot
    BY <2>7 DEF Boot, TypeOK, handlers, world
  <2>8. CASE CallerChanges
    <3>1. changes' \in 0 .. MaxChanges
      BY <2>8, ProxyAssumption DEF CallerChanges, TypeOK
    <3>2. caller' \subseteq Facts
      BY <2>8 DEF CallerChanges, TypeOK
    <3>3. ever' \in [Conns -> SUBSET Known]
      BY <2>8, <3>2, RecordedType DEF CallerChanges, TypeOK
    <3>4. QED  BY <2>8, <3>1, <3>2, <3>3 DEF CallerChanges, TypeOK, process, handlers
  <2>9. ASSUME NEW s \in Slots, Remount(s) PROVE TypeOK'
    <3>1. changes' \in 0 .. MaxChanges
      BY <2>9, ProxyAssumption DEF Remount, TypeOK
    <3>2. mounted' \in [Slots -> Servers \cup {None}]
      BY <2>9 DEF Remount, TypeOK
    <3>3. ever' \in [Conns -> SUBSET Known]
      BY <2>9, <3>2, RecordedType DEF Remount, TypeOK
    <3>4. QED  BY <2>9, <3>1, <3>2, <3>3 DEF Remount, TypeOK, process, handlers
  <2>10. CASE UNCHANGED vars
    BY <2>10 DEF vars, TypeOK, process, handlers, world
  <2>11. QED
    BY <2>1, <2>2, <2>3, <2>4, <2>5, <2>6, <2>7, <2>8, <2>9, <2>10 DEF Next
<1>3. QED  BY <1>1, <1>2, PTL DEF Spec

-----------------------------------------------------------------------------
(* no stream is half open *)

LEMMA DownNoHalfOpen == TypeOK /\ Down => NoHalfOpen'
BY DEF Down, NoHalfOpen, TypeOK

LEMMA CloseBothNoHalfOpen ==
    ASSUME TypeOK, NoHalfOpen, NEW c \in Conns, NEW code, NEW client, NEW upstream,
           CloseBoth(c, code, client, upstream)
    PROVE  NoHalfOpen'
<1>1. CASE Down
  BY <1>1, DownNoHalfOpen
<1>2. CASE /\ cl' = [cl EXCEPT ![c] = Closing(client)]
           /\ up' = [up EXCEPT ![c] = Closing(upstream)]
           /\ pc' = pc
  <2>1. Closing(client) # "open" /\ Closing(upstream) # "open"
    BY DEF Closing
  <2>2. QED  BY <1>2, <2>1 DEF TypeOK, NoHalfOpen
<1>3. QED  BY <1>1, <1>2 DEF CloseBoth

\* A step leaves alone what NoHalfOpen is about, or it is one of these.
LEMMA StreamSteps ==
    ASSUME Next
    PROVE  \/ UNCHANGED <<pc, cl, up>> \/ Down
           \/ \E c \in Conns :
                 \/ pc[c] # "piped" /\ UNCHANGED <<cl, up>>
                    /\ \E x \in PCs \ {"piped"} : pc' = [pc EXCEPT ![c] = x]
                 \/ pc[c] \in {"grant", "dial"} /\ \E x \in PCs \ {"piped"} :
                        pc' = [pc EXCEPT ![c] = x] /\ cl' = cl /\ \E y : up' = [up EXCEPT ![c] = y]
                 \/ UpstreamOpen(c) \/ UpstreamClosed(c) \/ ClientClosed(c) \/ UpstreamError(c)
                    \/ ClientError(c)
                 \/ pc[c] # "piped" /\ UNCHANGED <<pc, cl>> /\ \E y : up' = [up EXCEPT ![c] = y]
<1>1. ASSUME NEW c \in Conns, NEW s \in Slots, Upgrade(c, s)
      PROVE  pc[c] # "piped" /\ UNCHANGED <<cl, up>> /\ \E x \in PCs \ {"piped"} : pc' = [pc EXCEPT ![c] = x]
  BY <1>1 DEF Upgrade, Goto, PCs, Reading
<1>2. ASSUME NEW c \in Conns,
             SessionParsed(c) \/ UserFound(c) \/ ClientFound(c) \/ SlotSeen(c)
      PROVE  pc[c] # "piped" /\ UNCHANGED <<cl, up>> /\ \E x \in PCs \ {"piped"} : pc' = [pc EXCEPT ![c] = x]
  BY <1>2 DEF SessionParsed, UserFound, ClientFound, SlotSeen, AbortHandshake, Goto, PCs, Reading
<1>3. ASSUME NEW c \in Conns, GrantChecked(c)
      PROVE  pc[c] = "grant" /\ \E x \in PCs \ {"piped"} :
                pc' = [pc EXCEPT ![c] = x] /\ cl' = cl
                /\ (up' = up \/ \E y : up' = [up EXCEPT ![c] = y])
  BY <1>3 DEF GrantChecked, Dial, AbortHandshake, Goto, PCs
<1>4. ASSUME NEW c \in Conns, UpstreamFails(c)
      PROVE  pc[c] = "dial" /\ \E x \in PCs \ {"piped"} :
                pc' = [pc EXCEPT ![c] = x] /\ cl' = cl /\ \E y : up' = [up EXCEPT ![c] = y]
  BY <1>4 DEF UpstreamFails, AbortHandshake, Goto, PCs
<1>5. ASSUME NEW c \in Conns, OrphanClosed(c)
      PROVE  pc[c] # "piped" /\ UNCHANGED <<pc, cl>> /\ \E y : up' = [up EXCEPT ![c] = y]
  BY <1>5 DEF OrphanClosed, handlers
<1>6. ASSUME NEW c \in Conns, DatabaseFails(c) \/ ConnectionReset(c) PROVE Down
  BY <1>6 DEF DatabaseFails, ConnectionReset
<1>7. ASSUME NEW c \in Conns, Leaves(c) \/ NetworkLost(c) PROVE UNCHANGED <<pc, cl, up>>
  BY <1>7 DEF Leaves, NetworkLost, handlers
<1>8. Shutdown \/ Drained \/ HardKill \/ Boot => UNCHANGED <<pc, cl, up>> \/ Down
  BY DEF Shutdown, Drained, HardKill, Boot, handlers
<1>9. CallerChanges \/ (\E s \in Slots : Remount(s)) => UNCHANGED <<pc, cl, up>>
  BY DEF CallerChanges, Remount, handlers
<1>10. QED
  <2>1. CASE \E c \in Conns : \/ \E s \in Slots : Upgrade(c, s)
                             \/ Handler(c) \/ Stream(c)
                             \/ Leaves(c) \/ NetworkLost(c) \/ ConnectionReset(c)
    BY <2>1, <1>1, <1>2, <1>3, <1>4, <1>5, <1>6, <1>7, Zenon DEF Handler, Stream
  <2>2. QED  BY <2>1, <1>8, <1>9 DEF Next

\* A stream never stays half open, whichever side ends first and however
\* (ws-proxy.ts:110-124).
THEOREM NeverHalfOpen == Spec => []NoHalfOpen
<1>1. Init => NoHalfOpen
  BY DEF Init, NoHalfOpen
<1>2. TypeOK /\ NoHalfOpen /\ [Next]_vars => NoHalfOpen'
  <2> SUFFICES ASSUME TypeOK, NoHalfOpen, [Next]_vars PROVE NoHalfOpen'
    OBVIOUS
  <2>1. CASE UNCHANGED <<pc, cl, up>>
    BY <2>1 DEF NoHalfOpen
  <2>2. CASE Down
    BY <2>2, DownNoHalfOpen
  <2>3. ASSUME NEW c \in Conns, NEW x \in PCs \ {"piped"}, pc' = [pc EXCEPT ![c] = x], cl' = cl,
               up' = up \/ \E y : up' = [up EXCEPT ![c] = y]
        PROVE  NoHalfOpen'
    BY <2>3 DEF NoHalfOpen, TypeOK
  <2>4. ASSUME NEW c \in Conns, UpstreamOpen(c) PROVE NoHalfOpen'
    <3>1. CASE pc' = [pc EXCEPT ![c] = "piped"] /\ cl' = [cl EXCEPT ![c] = "open"]
      <4>1. cl'[c] = "open" /\ up'[c] = "open"
        BY <2>4, <3>1 DEF UpstreamOpen, TypeOK
      <4>2. \A d \in Conns \ {c} : pc'[d] = pc[d] /\ cl'[d] = cl[d] /\ up'[d] = up[d]
        BY <2>4, <3>1 DEF UpstreamOpen, TypeOK
      <4>3. QED  BY <4>1, <4>2 DEF NoHalfOpen
    <3>2. CASE pc' = [pc EXCEPT ![c] = "over"] /\ cl' = cl
      BY <2>4, <3>2 DEF UpstreamOpen, NoHalfOpen, TypeOK
    <3>3. QED  BY <2>4, <3>1, <3>2 DEF UpstreamOpen, Goto
  <2>5. ASSUME NEW c \in Conns, UpstreamClosed(c) \/ ClientClosed(c) \/ ClientError(c) PROVE NoHalfOpen'
    <3>1. CASE UpstreamClosed(c) \/ ClientClosed(c)
      <4>1. PICK code : CloseBoth(c, code, "closed", up[c]) \/ CloseBoth(c, code, cl[c], "closed")
        BY <3>1 DEF UpstreamClosed, ClientClosed
      <4>2. QED  BY <4>1, CloseBothNoHalfOpen
    <3>2. CASE ClientError(c)
      BY <3>2, CloseBothNoHalfOpen DEF ClientError
    <3>3. QED  BY <2>5, <3>1, <3>2
  <2>6. ASSUME NEW c \in Conns, UpstreamError(c) PROVE NoHalfOpen'
    BY <2>6 DEF UpstreamError, Closing, NoHalfOpen, TypeOK, handlers
  <2>7. ASSUME NEW c \in Conns, pc[c] # "piped", UNCHANGED <<pc, cl>>,
               \E y : up' = [up EXCEPT ![c] = y]
        PROVE  NoHalfOpen'
    BY <2>7 DEF NoHalfOpen, TypeOK
  <2>8. CASE UNCHANGED vars
    BY <2>8, <2>1 DEF vars, handlers
  <2>9. QED
    <3>1. CASE Next
      BY <3>1, StreamSteps, <2>1, <2>2, <2>3, <2>4, <2>5, <2>6, <2>7
    <3>2. QED  BY <3>1, <2>8
<1>3. QED  BY <1>1, <1>2, TypeCorrect, PTL DEF Spec

-----------------------------------------------------------------------------
(* nobody is let in on rights never held *)

\* What a handler has read held at some time since the request arrived. The
\* facts of now are recorded (Recorded), so that what a step reads is.
LearntOf(c) ==
    /\ pc[c] \notin Reading => saw[c] = Blank
    /\ pc[c] \in Reading => Now(slotOf[c]) \subseteq ever[c]
    /\ pc[c] \in Reading \ {"session"} => <<"is", "session">> \in ever[c]
    /\ pc[c] \in Reading \ {"session", "user"} => <<"is", "enabled">> \in ever[c]
    /\ saw[c].admin => <<"is", "admin">> \in ever[c]
    /\ saw[c].server # None => <<"mounted", saw[c].server>> \in ever[c]
Learnt == \A c \in Conns : LearntOf(c)

\* A step of one handler: the others, and the facts, are as they were.
Others(c) ==
    /\ UNCHANGED <<caller, mounted>>
    /\ \A d \in Conns \ {c} : pc'[d] = pc[d] /\ slotOf'[d] = slotOf[d] /\ saw'[d] = saw[d] /\ ever'[d] = ever[d]

LEMMA OneHandler ==
    ASSUME Learnt, NEW c \in Conns, Others(c), LearntOf(c)'
    PROVE  Learnt'
<1>1. ASSUME NEW d \in Conns \ {c} PROVE LearntOf(d)'
  BY <1>1 DEF Learnt, LearntOf, Others, Now, Blank
<1>2. QED  BY <1>1 DEF Learnt

LEMMA NothingLearnt ==
    ASSUME Learnt, UNCHANGED <<pc, slotOf, saw, ever, caller, mounted>> PROVE Learnt'
BY DEF Learnt, LearntOf, Now, Blank

LEMMA AbortLearnt ==
    ASSUME TypeOK, Learnt, NEW c \in Conns, AbortHandshake(c), UNCHANGED <<caller, mounted>>
    PROVE  Learnt'
<1>1. Others(c)
  BY DEF AbortHandshake, Goto, Others, TypeOK
<1>2. pc'[c] = "over" /\ saw'[c] = Blank
  BY DEF AbortHandshake, Goto, TypeOK
<1>3. LearntOf(c)'
  BY <1>2 DEF LearntOf, Blank, Reading
<1>4. QED  BY <1>1, <1>3, OneHandler

LEMMA DownLearnt == ASSUME TypeOK, Learnt, Down PROVE Learnt'
<1> SUFFICES ASSUME NEW c \in Conns PROVE LearntOf(c)'
  BY DEF Learnt
<1>1. pc'[c] \notin Reading /\ saw'[c] = Blank
  BY DEF Down, TypeOK, Reading
<1>2. QED  BY <1>1 DEF LearntOf, Blank

LEMMA RecordedLearnt ==
    ASSUME TypeOK, Learnt, Recorded, UNCHANGED handlers
    PROVE  Learnt'
<1> SUFFICES ASSUME NEW c \in Conns PROVE LearntOf(c)'
  BY DEF Learnt
<1>1. /\ ever[c] \subseteq ever'[c]
      /\ pc[c] \in Reading => ever'[c] = ever[c] \cup caller' \cup {<<"mounted", mounted'[slotOf[c]]>>}
  BY DEF Recorded
<1>2. LearntOf(c) /\ pc'[c] = pc[c] /\ slotOf'[c] = slotOf[c] /\ saw'[c] = saw[c]
  BY DEF Learnt, handlers
<1>3. pc'[c] \in Reading => Now(slotOf[c])' \subseteq ever'[c]
  BY <1>1, <1>2 DEF Now
<1>4. QED  BY <1>1, <1>2, <1>3 DEF LearntOf, Blank

\* Steps of the streams, the process and the network teach nobody anything.
LEMMA ElsewhereLearnt ==
    ASSUME TypeOK, Learnt, NEW c \in Conns,
           \/ Stream(c) \/ Leaves(c) \/ NetworkLost(c) \/ ConnectionReset(c) \/ DatabaseFails(c)
           \/ Shutdown \/ Drained \/ HardKill \/ Boot
    PROVE  Learnt'
<1>1. Down \/ UNCHANGED <<pc, slotOf, saw, ever, caller, mounted>>
  BY DEF Stream, ClientClosed, UpstreamClosed, CloseBoth, UpstreamError, ClientError, OrphanClosed, Leaves,
         NetworkLost, ConnectionReset, DatabaseFails, Shutdown, Drained, HardKill, Boot, handlers, world
<1>2. QED  BY <1>1, DownLearnt, NothingLearnt

LEMMA LearntInvariant == TypeOK /\ Learnt /\ [Next]_vars => Learnt'
<1> SUFFICES ASSUME TypeOK, Learnt, [Next]_vars PROVE Learnt'
  OBVIOUS
<1>1. ASSUME NEW c \in Conns, NEW s \in Slots, Upgrade(c, s) PROVE Learnt'
  <2>1. Others(c)
    BY <1>1 DEF Upgrade, Others, Goto, TypeOK, world
  <2>2. pc'[c] = "session" /\ slotOf'[c] = s /\ saw'[c] = Blank /\ ever'[c] = Now(s)'
    BY <1>1 DEF Upgrade, Goto, Learnt, LearntOf, TypeOK, Reading, Now, world
  <2>3. LearntOf(c)'
    BY <2>2 DEF LearntOf, Blank, Reading
  <2>4. QED  BY <2>1, <2>3, OneHandler
<1>2. ASSUME NEW c \in Conns, SessionParsed(c) PROVE Learnt'
  <2>1. CASE AbortHandshake(c)
    BY <1>2, <2>1, AbortLearnt DEF SessionParsed, world
  <2>2. CASE <<"is", "session">> \in caller /\ Goto(c, "user") /\ UNCHANGED <<slotOf, saw, cl, cut, ever>>
    <3>1. Others(c)
      BY <1>2, <2>2 DEF SessionParsed, Others, Goto, TypeOK, world
    <3>2. pc[c] = "session" /\ pc'[c] = "user" /\ UNCHANGED <<caller, mounted>>
      BY <1>2, <2>2 DEF SessionParsed, Goto, TypeOK, world
    <3>3. LearntOf(c)'
      BY <2>2, <3>2 DEF Learnt, LearntOf, Now, Blank, Reading
    <3>4. QED  BY <3>1, <3>3, OneHandler
  <2>3. QED  BY <1>2, <2>1, <2>2 DEF SessionParsed
<1>3. ASSUME NEW c \in Conns, UserFound(c) PROVE Learnt'
  <2>1. CASE AbortHandshake(c)
    BY <1>3, <2>1, AbortLearnt DEF UserFound, world
  <2>2. CASE /\ <<"is", "enabled">> \in caller /\ Goto(c, "client")
             /\ saw' = [saw EXCEPT ![c].admin = <<"is", "admin">> \in caller]
             /\ UNCHANGED <<slotOf, cl, cut, ever>>
    <3>1. Others(c)
      BY <1>3, <2>2 DEF UserFound, Others, Goto, TypeOK, world
    <3>2. pc[c] = "user" /\ pc'[c] = "client" /\ UNCHANGED <<caller, mounted>>
      BY <1>3, <2>2 DEF UserFound, Goto, TypeOK, world
    <3>3. saw'[c].server = saw[c].server /\ (saw'[c].admin <=> <<"is", "admin">> \in caller)
      BY <2>2 DEF TypeOK
    <3>4. LearntOf(c)'
      BY <2>2, <3>2, <3>3 DEF Learnt, LearntOf, Now, Reading
    <3>5. QED  BY <3>1, <3>4, OneHandler
  <2>3. QED  BY <1>3, <2>1, <2>2 DEF UserFound
<1>4. ASSUME NEW c \in Conns, ClientFound(c) PROVE Learnt'
  <2>1. CASE AbortHandshake(c)
    BY <1>4, <2>1, AbortLearnt DEF ClientFound, world
  <2>2. CASE Goto(c, "slot") /\ UNCHANGED <<slotOf, saw, cl, cut, ever>>
    <3>1. Others(c)
      BY <1>4, <2>2 DEF ClientFound, Others, Goto, TypeOK, world
    <3>2. pc[c] = "client" /\ pc'[c] = "slot" /\ UNCHANGED <<caller, mounted>>
      BY <1>4, <2>2 DEF ClientFound, Goto, TypeOK, world
    <3>3. LearntOf(c)'
      BY <2>2, <3>2 DEF Learnt, LearntOf, Now, Blank, Reading
    <3>4. QED  BY <3>1, <3>3, OneHandler
  <2>3. QED  BY <1>4, <2>1, <2>2 DEF ClientFound
<1>5. ASSUME NEW c \in Conns, SlotSeen(c) PROVE Learnt'
  <2>1. Others(c)
    BY <1>5 DEF SlotSeen, Others, Goto, TypeOK, world
  <2>2. /\ pc[c] = "slot" /\ pc'[c] = "grant" /\ UNCHANGED <<slotOf, ever, caller, mounted>>
        /\ saw'[c].admin = saw[c].admin /\ saw'[c].server \in {mounted[slotOf[c]], None}
    BY <1>5 DEF SlotSeen, Goto, TypeOK, world
  <2>3. LearntOf(c)'
    BY <2>2 DEF Learnt, LearntOf, Now, Reading
  <2>4. QED  BY <2>1, <2>3, OneHandler
<1>6. ASSUME NEW c \in Conns, GrantChecked(c) PROVE Learnt'
  <2>1. CASE AbortHandshake(c)
    BY <1>6, <2>1, AbortLearnt DEF GrantChecked, world
  <2>2. CASE /\ Dial(c) /\ saw' = [saw EXCEPT ![c] = Blank] /\ ever' = [ever EXCEPT ![c] = {}]
             /\ UNCHANGED <<slotOf, cl, cut>>
    <3>1. Others(c)
      BY <1>6, <2>2 DEF GrantChecked, Dial, Others, Goto, TypeOK, world
    <3>2. pc'[c] = "dial" /\ saw'[c] = Blank
      BY <2>2 DEF Dial, Goto, TypeOK
    <3>3. LearntOf(c)'
      BY <3>2 DEF LearntOf, Blank, Reading
    <3>4. QED  BY <3>1, <3>3, OneHandler
  <2>3. QED  BY <1>6, <2>1, <2>2 DEF GrantChecked
<1>7. ASSUME NEW c \in Conns, UpstreamOpen(c) PROVE Learnt'
  <2>1. Others(c) /\ UNCHANGED <<slotOf, saw, ever>>
    BY <1>7 DEF UpstreamOpen, Others, Goto, TypeOK, world
  <2>2. pc[c] = "dial" /\ pc'[c] \in {"piped", "over"}
    BY <1>7 DEF UpstreamOpen, Goto, TypeOK
  <2>3. LearntOf(c)'
    BY <2>1, <2>2 DEF Learnt, LearntOf, Blank, Reading
  <2>4. QED  BY <2>1, <2>3, OneHandler
<1>8. ASSUME NEW c \in Conns, UpstreamFails(c) PROVE Learnt'
  BY <1>8, AbortLearnt DEF UpstreamFails, world
<1>9. CASE CallerChanges \/ \E s \in Slots : Remount(s)
  BY <1>9, RecordedLearnt DEF CallerChanges, Remount
<1>10. CASE UNCHANGED vars
  BY <1>10, NothingLearnt DEF vars, handlers, world
<1>11. CASE Shutdown \/ Drained \/ HardKill \/ Boot
  <2>1. Down \/ UNCHANGED <<pc, slotOf, saw, ever, caller, mounted>>
    BY <1>11 DEF Shutdown, Drained, HardKill, Boot, handlers, world
  <2>2. QED  BY <2>1, DownLearnt, NothingLearnt
<1>12. QED
  BY <1>1, <1>2, <1>3, <1>4, <1>5, <1>6, <1>7, <1>8, <1>9, <1>10, <1>11, ElsewhereLearnt
     DEF Next, Handler

Allowed(c) ==
    /\ {<<"is", "session">>, <<"is", "enabled">>} \subseteq ever[c]
    /\ \/ <<"is", "admin">> \in ever[c]
       \/ \E s \in Servers : {<<"mounted", s>>, <<"granted", s>>} \subseteq ever[c]

LEMMA DialAllowed ==
    ASSUME TypeOK, Learnt, NEW c \in Conns, GrantChecked(c), MayObserve(c) PROVE Allowed(c)
<1>1. pc[c] = "grant" /\ LearntOf(c)
  BY DEF GrantChecked, Learnt
<1>2. saw[c].server \in Servers \cup {None} /\ caller \subseteq ever[c]
  BY <1>1 DEF TypeOK, LearntOf, Now, Reading
<1>3. QED  BY <1>1, <1>2 DEF Allowed, MayObserve, LearntOf, Reading

\* The step that dials is the one that checked the grant.
LEMMA OnlyDial ==
    ASSUME TypeOK, NEW c \in Conns, Next, pc[c] # "dial", pc'[c] = "dial"
    PROVE  GrantChecked(c) /\ MayObserve(c)
<1>1. Down => FALSE
  BY DEF Down, TypeOK
<1>2. ASSUME NEW d \in Conns, d # c, Handler(d) \/ \E s \in Slots : Upgrade(d, s) PROVE FALSE
  BY <1>1, <1>2 DEF Handler, SessionParsed, UserFound, ClientFound, SlotSeen, GrantChecked, Dial,
     DatabaseFails, UpstreamOpen, UpstreamFails, AbortHandshake, Goto, TypeOK, Upgrade
<1>3. ASSUME ~GrantChecked(c), Handler(c) \/ \E s \in Slots : Upgrade(c, s) PROVE FALSE
  BY <1>1, <1>3 DEF Handler, SessionParsed, UserFound, ClientFound, SlotSeen,
     DatabaseFails, UpstreamOpen, UpstreamFails, AbortHandshake, Goto, TypeOK, Upgrade
<1>4. ASSUME GrantChecked(c), ~MayObserve(c) PROVE FALSE
  BY <1>4 DEF GrantChecked, AbortHandshake, Goto, TypeOK
<1>5. ASSUME NEW d \in Conns,
             Stream(d) \/ Leaves(d) \/ NetworkLost(d) \/ ConnectionReset(d) PROVE FALSE
  BY <1>1, <1>5 DEF Stream, ClientClosed, UpstreamClosed, CloseBoth, UpstreamError, ClientError, OrphanClosed,
     Leaves, NetworkLost, ConnectionReset, handlers
<1>6. Shutdown \/ Drained \/ HardKill \/ Boot \/ CallerChanges \/ (\E s \in Slots : Remount(s)) => FALSE
  BY <1>1 DEF Shutdown, Drained, HardKill, Boot, CallerChanges, Remount, handlers
<1>7. QED  BY <1>2, <1>3, <1>4, <1>5, <1>6 DEF Next

\* A peer is dialled only for a caller who, since the request arrived, held all
\* the rights that are looked at, each at some time (ws-proxy.ts:34-57).
THEOREM AdmittedHolds == Spec => Admitted
<1>1. Init => Learnt
  BY DEF Init, Learnt, LearntOf, Blank, Reading
<1>2. TypeOK /\ Learnt /\ [Next]_vars =>
        [\A c \in Conns : pc[c] # "dial" /\ pc'[c] = "dial" => Allowed(c)]_vars
  <2> SUFFICES ASSUME TypeOK, Learnt, Next, NEW c \in Conns, pc[c] # "dial", pc'[c] = "dial"
               PROVE  Allowed(c)
    OBVIOUS
  <2>1. QED  BY OnlyDial, DialAllowed
<1>3. [\A c \in Conns : pc[c] # "dial" /\ pc'[c] = "dial" => Allowed(c)]_vars =>
      [\A c \in Conns : pc[c] # "dial" /\ pc'[c] = "dial" =>
          /\ {<<"is", "session">>, <<"is", "enabled">>} \subseteq ever[c]
          /\ \/ <<"is", "admin">> \in ever[c]
             \/ \E s \in Servers : {<<"mounted", s>>, <<"granted", s>>} \subseteq ever[c]]_vars
  BY DEF Allowed
<1>4. QED  BY <1>1, <1>2, <1>3, LearntInvariant, TypeCorrect, PTL DEF Spec, Admitted

-----------------------------------------------------------------------------
(* nobody is let in on rights that do not hold together *)

\* While its handler reads, the caller loses no right and the slot is not remounted.
Steady(c) ==
    pc[c] \in Reading => caller \subseteq caller' /\ mounted'[slotOf[c]] = mounted[slotOf[c]]
\* Then all that held since the request arrived still holds.
NothingLost(c) == pc[c] \in Reading => ever[c] \subseteq Now(slotOf[c])
Entitled(c) ==
    /\ {<<"is", "session">>, <<"is", "enabled">>} \subseteq caller
    /\ \/ <<"is", "admin">> \in caller
       \/ mounted[slotOf[c]] # None /\ <<"granted", mounted[slotOf[c]]>> \in caller

LEMMA SteadyKeeps ==
    ASSUME TypeOK, NEW c \in Conns, NothingLost(c), Next, Steady(c) PROVE NothingLost(c)'
<1>1. ASSUME NEW s \in Slots, Upgrade(c, s) PROVE NothingLost(c)'
  BY <1>1 DEF Upgrade, Goto, TypeOK, NothingLost, Now, world
<1>2. ASSUME CallerChanges \/ \E s \in Slots : Remount(s) PROVE NothingLost(c)'
  <2>1. UNCHANGED <<pc, slotOf>> /\ Recorded
    BY <1>2 DEF CallerChanges, Remount, handlers
  <2>2. pc[c] \in Reading =>
          ever'[c] = ever[c] \cup caller' \cup {<<"mounted", mounted'[slotOf[c]]>>}
    BY <2>1 DEF Recorded
  <2>3. QED  BY <2>1, <2>2 DEF NothingLost, Steady, Now
<1>3. ASSUME UNCHANGED world, slotOf'[c] = slotOf[c],
             pc'[c] \in Reading => pc[c] \in Reading /\ ever'[c] = ever[c]
      PROVE  NothingLost(c)'
  BY <1>3 DEF NothingLost, Now, world
<1>4. ASSUME Down PROVE NothingLost(c)'
  BY <1>4 DEF Down, TypeOK, NothingLost, Reading
<1>5. ASSUME NEW d \in Conns, d # c, Handler(d) \/ \E s \in Slots : Upgrade(d, s)
      PROVE  NothingLost(c)'
  <2>1. Down \/ (UNCHANGED world /\ slotOf'[c] = slotOf[c] /\ pc'[c] = pc[c] /\ ever'[c] = ever[c])
    BY <1>5 DEF Handler, SessionParsed, UserFound, ClientFound, SlotSeen, GrantChecked, Dial,
       DatabaseFails, UpstreamOpen, UpstreamFails, AbortHandshake, Goto, TypeOK, Upgrade
  <2>2. QED  BY <2>1, <1>3, <1>4
<1>6. ASSUME Handler(c) PROVE NothingLost(c)'
  <2>1. ASSUME AbortHandshake(c), UNCHANGED world PROVE NothingLost(c)'
    BY <2>1, <1>3 DEF AbortHandshake, Goto, TypeOK, Reading
  <2>2. ASSUME NEW x, Goto(c, x), UNCHANGED <<world, slotOf>>, x \in Reading => pc[c] \in Reading /\ ever' = ever
        PROVE  NothingLost(c)'
    BY <2>2, <1>3 DEF Goto, TypeOK
  <2>3. CASE SessionParsed(c) \/ UserFound(c) \/ ClientFound(c) \/ SlotSeen(c)
    BY <2>1, <2>2, <2>3 DEF SessionParsed, UserFound, ClientFound, SlotSeen, Reading
  <2>4. CASE GrantChecked(c)
    BY <2>1, <2>2, <2>4 DEF GrantChecked, Dial, Reading
  <2>5. CASE UpstreamOpen(c) \/ UpstreamFails(c) \/ DatabaseFails(c)
    BY <1>4, <2>1, <2>2, <2>5 DEF UpstreamOpen, UpstreamFails, DatabaseFails, Reading
  <2>6. QED  BY <1>6, <2>3, <2>4, <2>5 DEF Handler
<1>7. ASSUME NEW d \in Conns, Stream(d) \/ Leaves(d) \/ NetworkLost(d) \/ ConnectionReset(d)
      PROVE  NothingLost(c)'
  <2>1. Down \/ UNCHANGED <<pc, slotOf, ever, world>>
    BY <1>7 DEF Stream, ClientClosed, UpstreamClosed, CloseBoth, UpstreamError, ClientError, OrphanClosed,
       Leaves, NetworkLost, ConnectionReset, handlers
  <2>2. QED  BY <2>1, <1>3, <1>4
<1>8. CASE Shutdown \/ Drained \/ HardKill \/ Boot
  <2>1. Down \/ UNCHANGED <<pc, slotOf, ever, world>>
    BY <1>8 DEF Shutdown, Drained, HardKill, Boot, handlers
  <2>2. QED  BY <2>1, <1>3, <1>4
<1>9. QED
  BY <1>1, <1>2, <1>5, <1>6, <1>7, <1>8, Zenon DEF Next

LEMMA AllAtOnce ==
    ASSUME TypeOK, NEW c \in Conns, NothingLost(c), pc[c] = "grant", Allowed(c) PROVE Entitled(c)
<1>1. ever[c] \subseteq caller \cup {<<"mounted", mounted[slotOf[c]]>>}
  BY DEF NothingLost, Now, Reading
<1>2. \A x : <<"is", x>> \in ever[c] => <<"is", x>> \in caller
  BY <1>1
<1>3. \A s : <<"granted", s>> \in ever[c] => <<"granted", s>> \in caller
  BY <1>1
<1>4. \A s : <<"mounted", s>> \notin caller
  BY DEF TypeOK, Facts
<1>5. \A s \in Servers : <<"mounted", s>> \in ever[c] => s = mounted[slotOf[c]]
  BY <1>1, <1>4
<1>6. QED
  BY <1>2, <1>3, <1>5, ProxyAssumption DEF Allowed, Entitled

LEMMA SteadyAdmitted ==
    ASSUME NEW c \in Conns
    PROVE  Spec /\ [][Steady(c)]_vars => [][pc[c] # "dial" /\ pc'[c] = "dial" => Entitled(c)]_vars
<1>1. Init => Learnt /\ NothingLost(c)
  BY DEF Init, Learnt, LearntOf, Blank, Reading, NothingLost
<1>2. TypeOK /\ NothingLost(c) /\ [Next]_vars /\ [Steady(c)]_vars => NothingLost(c)'
  <2>1. ASSUME UNCHANGED vars, NothingLost(c) PROVE NothingLost(c)'
    BY <2>1 DEF vars, handlers, world, NothingLost, Now
  <2>2. QED  BY <2>1, SteadyKeeps
<1>3. TypeOK /\ Learnt /\ NothingLost(c) /\ [Next]_vars =>
        [pc[c] # "dial" /\ pc'[c] = "dial" => Entitled(c)]_vars
  <2> SUFFICES ASSUME TypeOK, Learnt, NothingLost(c), Next, pc[c] # "dial", pc'[c] = "dial"
               PROVE  Entitled(c)
    OBVIOUS
  <2>1. GrantChecked(c) /\ Allowed(c) /\ pc[c] = "grant"
    BY OnlyDial, DialAllowed DEF GrantChecked
  <2>2. QED  BY <2>1, AllAtOnce
<1>4. QED  BY <1>1, <1>2, <1>3, LearntInvariant, TypeCorrect, PTL DEF Spec

\* The five reads of the handler (ws-proxy.ts:34-57) are as good as one: while no
\* right of the caller is taken away and the slot keeps its server, a peer is
\* dialled only for a caller who holds every right at that very moment, the
\* grant for the server that is mounted now. What others do is no matter.
THEOREM AdmittedAtOnce == \A c \in Conns :
    Spec /\ [][Steady(c)]_vars => [][pc[c] # "dial" /\ pc'[c] = "dial" => Entitled(c)]_vars
BY SteadyAdmitted

-----------------------------------------------------------------------------
(* every request is decided, every stream ends *)

\* What comes after each of the five awaits.
After == [session |-> {"user", "over"}, user |-> {"client", "over"}, client |-> {"slot", "over"},
          slot |-> {"grant", "over"}, grant |-> {"dial", "over"}]

\* Nothing but its own next await, or the end of the process, moves a handler
\* that reads.
LEMMA ReadsOn ==
    ASSUME TypeOK, NEW c \in Conns, NEW x \in Reading, pc[c] = x, [Next]_vars
    PROVE  pc'[c] = x \/ pc'[c] \in After[x]
<1>1. ASSUME Down PROVE pc'[c] \in After[x]
  BY <1>1 DEF Down, TypeOK, Reading, After
<1>2. ASSUME NEW d \in Conns, d # c, Handler(d) \/ \E s \in Slots : Upgrade(d, s)
      PROVE  pc'[c] = pc[c] \/ Down
  BY <1>2 DEF Handler, SessionParsed, UserFound, ClientFound, SlotSeen, GrantChecked, Dial,
     DatabaseFails, UpstreamOpen, UpstreamFails, AbortHandshake, Goto, TypeOK, Upgrade
<1>3. ASSUME Handler(c) PROVE pc'[c] \in After[x] \/ Down
  BY <1>3 DEF Handler, SessionParsed, UserFound, ClientFound, SlotSeen, GrantChecked, Dial,
     DatabaseFails, UpstreamOpen, UpstreamFails, AbortHandshake, Goto, TypeOK, After, Reading
<1>4. ASSUME NEW s \in Slots, Upgrade(c, s) PROVE FALSE
  BY <1>4 DEF Upgrade, Reading
<1>5. ASSUME NEW d \in Conns,
             Stream(d) \/ Leaves(d) \/ NetworkLost(d) \/ ConnectionReset(d)
      PROVE  pc' = pc \/ Down
  BY <1>5 DEF Stream, ClientClosed, UpstreamClosed, CloseBoth, UpstreamError, ClientError, OrphanClosed,
     Leaves, NetworkLost, ConnectionReset, handlers
<1>6. Shutdown \/ Drained \/ HardKill \/ Boot \/ CallerChanges \/ (\E s \in Slots : Remount(s))
         \/ UNCHANGED vars => pc' = pc \/ Down
  BY DEF Shutdown, Drained, HardKill, Boot, CallerChanges, Remount, handlers, vars
<1>7. QED
  BY <1>1, <1>2, <1>3, <1>4, <1>5, <1>6, Zenon DEF Next

LEMMA SettlingMoves ==
    ASSUME TypeOK, NEW c \in Conns, NEW x \in Reading, pc[c] = x, Settles(c)
    PROVE  pc'[c] \in After[x]
BY DEF Settles, SessionParsed, UserFound, ClientFound, SlotSeen, GrantChecked, Dial, DatabaseFails,
       Down, AbortHandshake, Goto, TypeOK, After, Reading

At(c, x) == pc[c] = x
Out(c) == pc[c] \in {"dial", "over"}
Rd(c) == pc[c] \in Reading

LEMMA DecidedOne ==
    ASSUME NEW c \in Conns
    PROVE  FairSpec /\ []NeverStuck => (pc[c] \in Reading ~> pc[c] \in {"dial", "over"})
<1>1. Rd(c) <=> \/ At(c, "session") \/ At(c, "user") \/ At(c, "client") \/ At(c, "slot")
                \/ At(c, "grant")
  BY DEF Rd, At, Reading
<1>2. TypeOK /\ [Next]_vars =>
        /\ At(c, "session") => At(c, "session")' \/ At(c, "user")' \/ Out(c)'
        /\ At(c, "user") => At(c, "user")' \/ At(c, "client")' \/ Out(c)'
        /\ At(c, "client") => At(c, "client")' \/ At(c, "slot")' \/ Out(c)'
        /\ At(c, "slot") => At(c, "slot")' \/ At(c, "grant")' \/ Out(c)'
        /\ At(c, "grant") => At(c, "grant")' \/ Out(c)'
  BY ReadsOn DEF At, Out, After, Reading
<1>3. TypeOK /\ <<Settles(c)>>_vars =>
        /\ At(c, "session") => At(c, "user")' \/ Out(c)'
        /\ At(c, "user") => At(c, "client")' \/ Out(c)'
        /\ At(c, "client") => At(c, "slot")' \/ Out(c)'
        /\ At(c, "slot") => At(c, "grant")' \/ Out(c)'
        /\ At(c, "grant") => Out(c)'
  BY SettlingMoves DEF At, Out, After, Reading
<1>4. NeverStuck /\ Rd(c) => ENABLED <<Settles(c)>>_vars
  BY DEF NeverStuck, Rd
<1>5. FairSpec => []TypeOK /\ [][Next]_vars /\ WF_vars(Settles(c))
  <2>1. Fairness => Fair(c)
    BY DEF Fairness
  <2>2. Fair(c) => WF_vars(Settles(c))
    BY PTL DEF Fair
  <2>3. QED  BY <2>1, <2>2, TypeCorrect, PTL DEF Spec, FairSpec
<1>6. FairSpec /\ []NeverStuck => (At(c, "session") ~> At(c, "user") \/ Out(c))
  BY <1>1, <1>2, <1>3, <1>4, <1>5, PTL
<1>7. FairSpec /\ []NeverStuck => (At(c, "user") ~> At(c, "client") \/ Out(c))
  BY <1>1, <1>2, <1>3, <1>4, <1>5, PTL
<1>8. FairSpec /\ []NeverStuck => (At(c, "client") ~> At(c, "slot") \/ Out(c))
  BY <1>1, <1>2, <1>3, <1>4, <1>5, PTL
<1>9. FairSpec /\ []NeverStuck => (At(c, "slot") ~> At(c, "grant") \/ Out(c))
  BY <1>1, <1>2, <1>3, <1>4, <1>5, PTL
<1>10. FairSpec /\ []NeverStuck => (At(c, "grant") ~> Out(c))
  BY <1>1, <1>2, <1>3, <1>4, <1>5, PTL
<1>11. FairSpec /\ []NeverStuck => (Rd(c) ~> Out(c))
  BY <1>1, <1>6, <1>7, <1>8, <1>9, <1>10, PTL
<1>12. (Rd(c) ~> Out(c)) => (pc[c] \in Reading ~> pc[c] \in {"dial", "over"})
  BY PTL DEF Rd, Out
<1>13. QED  BY <1>11, <1>12

\* Every upgrade request is dialled, refused or dropped with the process, if
\* no handler is ever stuck (ws-proxy.ts:32-57).
THEOREM RequestsDecided == FairSpec /\ []NeverStuck => Decided
BY DecidedOne DEF Decided

\* A piped stream has two sockets, each open, closing or closed.
PairOf(c) == pc[c] = "piped" =>
    cl[c] \in {"open", "closing", "closed"} /\ up[c] \in {"open", "closing", "closed"}
Paired == \A c \in Conns : PairOf(c)

LEMMA ClosingStates ==
    ASSUME NEW x \in {"open", "closing", "closed"} PROVE Closing(x) \in {"closing", "closed"}
BY DEF Closing

LEMMA CloseBothPaired ==
    ASSUME TypeOK, Paired, NEW c \in Conns, NEW code,
           NEW client \in {"open", "closing", "closed"}, NEW upstream \in {"open", "closing", "closed"},
           CloseBoth(c, code, client, upstream)
    PROVE  Paired'
<1>1. CASE Down
  BY <1>1 DEF Down, Paired, PairOf, TypeOK
<1>2. CASE /\ cl' = [cl EXCEPT ![c] = Closing(client)]
           /\ up' = [up EXCEPT ![c] = Closing(upstream)]
           /\ pc' = pc
  BY <1>2, ClosingStates DEF TypeOK, Paired, PairOf
<1>3. QED  BY <1>1, <1>2 DEF CloseBoth

LEMMA PairedInvariant == TypeOK /\ Paired /\ [Next]_vars => Paired'
<1> SUFFICES ASSUME TypeOK, Paired, [Next]_vars PROVE Paired'
  OBVIOUS
<1>1. CASE UNCHANGED <<pc, cl, up>>
  BY <1>1 DEF Paired, PairOf
<1>2. CASE Down
  BY <1>2 DEF Down, Paired, PairOf, TypeOK
<1>3. ASSUME NEW c \in Conns, NEW x \in PCs \ {"piped"}, pc' = [pc EXCEPT ![c] = x], cl' = cl,
             up' = up \/ \E y : up' = [up EXCEPT ![c] = y]
      PROVE  Paired'
  BY <1>3 DEF Paired, PairOf, TypeOK
<1>4. ASSUME NEW c \in Conns, UpstreamOpen(c) PROVE Paired'
  <2>1. pc'[c] = "piped" => cl'[c] = "open"
    BY <1>4 DEF UpstreamOpen, Goto, TypeOK
  <2>2. up'[c] = "open" /\ \A d \in Conns \ {c} : pc'[d] = pc[d] /\ cl'[d] = cl[d] /\ up'[d] = up[d]
    BY <1>4 DEF UpstreamOpen, Goto, TypeOK
  <2>3. QED  BY <2>1, <2>2 DEF Paired, PairOf
<1>5. ASSUME NEW c \in Conns, UpstreamClosed(c) \/ ClientClosed(c) \/ ClientError(c) PROVE Paired'
  <2>1. cl[c] \in {"open", "closing", "closed"} /\ up[c] \in {"open", "closing", "closed"}
    BY <1>5 DEF UpstreamClosed, ClientClosed, ClientError, Paired, PairOf
  <2>2. CASE UpstreamClosed(c) \/ ClientClosed(c)
    <3>1. PICK code : CloseBoth(c, code, "closed", up[c]) \/ CloseBoth(c, code, cl[c], "closed")
      BY <2>2 DEF UpstreamClosed, ClientClosed
    <3>2. QED  BY <2>1, <3>1, CloseBothPaired
  <2>3. CASE ClientError(c)
    BY <2>1, <2>3, CloseBothPaired DEF ClientError
  <2>4. QED  BY <1>5, <2>2, <2>3
<1>6. ASSUME NEW c \in Conns, UpstreamError(c) PROVE Paired'
  BY <1>6, ClosingStates DEF UpstreamError, Paired, PairOf, TypeOK, handlers
<1>7. ASSUME NEW c \in Conns, pc[c] # "piped", UNCHANGED <<pc, cl>>, \E y : up' = [up EXCEPT ![c] = y]
      PROVE  Paired'
  BY <1>7 DEF Paired, PairOf, TypeOK
<1>8. CASE UNCHANGED vars
  BY <1>8, <1>1 DEF vars, handlers
<1>9. QED
  <2>1. CASE Next
    BY <2>1, StreamSteps, <1>1, <1>2, <1>3, <1>4, <1>5, <1>6, <1>7
  <2>2. QED  BY <2>1, <1>8

\* One side has ended, the other is closing: the client's, or the peer's.
ClientLast(c) == pc[c] = "piped" /\ cl[c] = "closing" /\ up[c] = "closed"
UpstreamLast(c) == pc[c] = "piped" /\ up[c] = "closing" /\ cl[c] = "closed"
Half(c) == pc[c] = "piped" /\ "closed" \in {cl[c], up[c]}
Ended(c) == cl[c] = "closed" /\ up[c] = "closed"

LEMMA LastCloses ==
    ASSUME TypeOK, NEW c \in Conns, ClientLast(c) \/ UpstreamLast(c), [Next]_vars
    PROVE  UNCHANGED <<pc[c], cl[c], up[c]>> \/ Ended(c)'
<1>1. CASE UNCHANGED <<pc, cl, up>>
  BY <1>1
<1>2. ASSUME Down PROVE Ended(c)'
  BY <1>2 DEF Down, Ended, TypeOK, ClientLast, UpstreamLast
<1>3. ASSUME NEW d \in Conns, NEW x, pc' = [pc EXCEPT ![d] = x], d # c,
             cl' = cl \/ \E y : cl' = [cl EXCEPT ![d] = y], up' = up \/ \E y : up' = [up EXCEPT ![d] = y]
      PROVE  UNCHANGED <<pc[c], cl[c], up[c]>>
  BY <1>3 DEF TypeOK
<1>4. ASSUME NEW d \in Conns, d # c, UpstreamOpen(d) \/ UpstreamError(d)
      PROVE  UNCHANGED <<pc[c], cl[c], up[c]>>
  BY <1>4 DEF UpstreamOpen, UpstreamError, Goto, handlers, TypeOK
<1>5. ASSUME NEW d \in Conns, d # c, UpstreamClosed(d) \/ ClientClosed(d) \/ ClientError(d)
      PROVE  UNCHANGED <<pc[c], cl[c], up[c]>> \/ Down
  BY <1>5 DEF UpstreamClosed, ClientClosed, ClientError, CloseBoth, TypeOK
<1>6. ASSUME UpstreamClosed(c) \/ ClientClosed(c) PROVE Ended(c)' \/ Down
  BY <1>6 DEF UpstreamClosed, ClientClosed, CloseBoth, Closing, TypeOK, ClientLast, UpstreamLast, Ended
<1>7. ~UpstreamOpen(c) /\ ~UpstreamError(c) /\ ~ClientError(c) /\ pc[c] = "piped"
  BY DEF UpstreamOpen, UpstreamError, ClientError, ClientLast, UpstreamLast
<1>8. CASE UNCHANGED vars
  BY <1>8 DEF vars, handlers
<1>9. ASSUME NEW d \in Conns, d # c, UNCHANGED <<pc, cl>>, \E y : up' = [up EXCEPT ![d] = y]
      PROVE  UNCHANGED <<pc[c], cl[c], up[c]>>
  BY <1>9 DEF TypeOK
<1>10. QED
  BY <1>1, <1>2, <1>3, <1>4, <1>5, <1>6, <1>7, <1>8, <1>9, StreamSteps

LEMMA ClientFollows ==
    ASSUME NEW c \in Conns
    PROVE  FairSpec /\ []NeverStuck => (ClientLast(c) ~> Ended(c))
<1>1. TypeOK /\ ClientLast(c) /\ [Next]_vars => ClientLast(c)' \/ Ended(c)'
  BY LastCloses DEF ClientLast
<1>2. TypeOK /\ ClientLast(c) /\ <<ClientEnds(c)>>_vars => Ended(c)'
  BY DEF ClientEnds, ClientClosed, CloseBoth, Closing, Down, TypeOK, ClientLast, Ended
<1>3. NeverStuck /\ ClientLast(c) => ENABLED <<ClientEnds(c)>>_vars
  BY DEF NeverStuck, ClientLast
<1>4. Fairness => Fair(c)
  BY DEF Fairness
<1>5. Fair(c) => WF_vars(ClientEnds(c))
  BY PTL DEF Fair
<1>6. QED  BY <1>1, <1>2, <1>3, <1>4, <1>5, TypeCorrect, PTL DEF Spec, FairSpec

LEMMA UpstreamFollows ==
    ASSUME NEW c \in Conns
    PROVE  FairSpec /\ []NeverStuck => (UpstreamLast(c) ~> Ended(c))
<1>1. TypeOK /\ UpstreamLast(c) /\ [Next]_vars => UpstreamLast(c)' \/ Ended(c)'
  BY LastCloses DEF UpstreamLast
<1>2. TypeOK /\ UpstreamLast(c) /\ <<UpstreamEnds(c)>>_vars => Ended(c)'
  BY DEF UpstreamEnds, UpstreamClosed, CloseBoth, Closing, Down, TypeOK, UpstreamLast, Ended
<1>3. NeverStuck /\ UpstreamLast(c) => ENABLED <<UpstreamEnds(c)>>_vars
  BY DEF NeverStuck, UpstreamLast
<1>4. Fairness => Fair(c)
  BY DEF Fairness
<1>5. Fair(c) => WF_vars(UpstreamEnds(c))
  BY PTL DEF Fair
<1>6. QED  BY <1>1, <1>2, <1>3, <1>4, <1>5, TypeCorrect, PTL DEF Spec, FairSpec

LEMMA StreamEnds ==
    ASSUME NEW c \in Conns
    PROVE  FairSpec /\ []NeverStuck =>
             (pc[c] = "piped" /\ "closed" \in {cl[c], up[c]} ~> cl[c] = "closed" /\ up[c] = "closed")
<1>1. Paired /\ NoHalfOpen /\ Half(c) => ClientLast(c) \/ UpstreamLast(c) \/ Ended(c)
  BY DEF Paired, PairOf, NoHalfOpen, Half, ClientLast, UpstreamLast, Ended
<1>2. Init => Paired
  BY DEF Init, Paired, PairOf
<1>3. FairSpec /\ []NeverStuck => (Half(c) ~> Ended(c))
  BY <1>1, <1>2, PairedInvariant, NeverHalfOpen, TypeCorrect, ClientFollows, UpstreamFollows, PTL
     DEF Spec, FairSpec
<1>4. (Half(c) ~> Ended(c)) =>
      (pc[c] = "piped" /\ "closed" \in {cl[c], up[c]} ~> cl[c] = "closed" /\ up[c] = "closed")
  BY PTL DEF Half, Ended
<1>5. QED  BY <1>3, <1>4

\* When one side of a stream ends both do, if no socket that is closing is
\* stuck (ws-proxy.ts:110-124).
THEOREM StreamsEndHolds == FairSpec /\ []NeverStuck => StreamsEnd
BY StreamEnds DEF StreamsEnd
=============================================================================
