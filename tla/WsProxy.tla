------------------------------ MODULE WsProxy ------------------------------
(***************************************************************************)
(* The WebSocket proxy and the life of the process that runs it.           *)
(*                                                                         *)
(* A stream is a pair of sockets, one to the browser and one to the peer.  *)
(* The handler of an upgrade request authorises the caller in five awaits, *)
(* dials the peer, and once that socket is open pipes the two: from then   *)
(* on the events of either are forwarded to the other. Exceptions that     *)
(* leave a handler end the process and every stream with it.               *)
(*                                                                         *)
(* All requests come from one caller. The page's side is in module Stream. *)
(***************************************************************************)
EXTENDS Naturals, FiniteSets

CONSTANTS
    Conns,    \* upgrade requests, each made once
    Slots,    \* slots of the peer
    Servers,  \* servers a slot may mount
    Callers,    \* bound: what the caller may start with, sets of Facts
    MaxChanges, \* bound: changes of the caller's rights and of the slots
    None

VARIABLES
    alive, draining,  \* the process runs; it was told to stop
    pc, slotOf, saw,  \* upgrade handlers: the slot asked for, what was read
    cl, up,           \* readyState of the browser's socket in mcsw and of the
                      \* socket to the peer
    left, cut,        \* external: how the browser has closed its socket;
                      \* connections that are gone
    caller, mounted,  \* external: session, user row and grants; the slots
    changes,          \* how often those changed (bound MaxChanges)
    ever              \* history: what held at some time since the upgrade request

process   == <<alive, draining>>
handlers  == <<pc, slotOf, saw>>
world     == <<caller, mounted, changes>>
vars      == <<process, handlers, cl, up, left, cut, world, ever>>

Reading == {"session", "user", "client", "slot", "grant"}
PCs == {"idle"} \cup Reading \cup {"dial", "piped", "over"}
ReadyStates == {"none", "connecting", "open", "closing", "closed"}

Flags == {"session", "enabled", "admin"}
Facts == ({"is"} \X Flags) \cup ({"granted"} \X Servers)
ASSUME ProxyAssumption ==
    /\ MaxChanges \in Nat /\ Callers \subseteq SUBSET Facts
    /\ None \notin Conns \cup Servers \cup Slots

Known == Facts \cup ({"mounted"} \X (Servers \cup {None}))
Now(s) == caller \cup {<<"mounted", mounted[s]>>}

\* Close codes 1000, 1001, 1011; 1005 (a close without a code), 1006 (no close).
Codes == {"normal", "away", "failed", "bare", "lost"}
Sendable == {"normal", "away", "failed"}

Blank == [admin |-> FALSE, server |-> None]

Init ==
    /\ alive = TRUE /\ draining = FALSE
    /\ pc = [c \in Conns |-> "idle"] /\ slotOf = [c \in Conns |-> None]
    /\ saw = [c \in Conns |-> Blank]
    /\ cl = [c \in Conns |-> "none"] /\ up = [c \in Conns |-> "none"]
    /\ left = [c \in Conns |-> "no"] /\ cut = {}
    /\ caller \in Callers /\ mounted \in [Slots -> Servers] /\ changes = 0
    /\ ever = [c \in Conns |-> {}]

Goto(c, step) == pc' = [pc EXCEPT ![c] = step]

-----------------------------------------------------------------------------
(* the upgrade handler *)

Upgrade(c, s) ==
    /\ alive /\ ~draining /\ pc[c] = "idle"
    /\ Goto(c, "session")
    /\ slotOf' = [slotOf EXCEPT ![c] = s]
    /\ ever' = [ever EXCEPT ![c] = Now(s)]
    /\ UNCHANGED <<process, saw, cl, up, left, cut, world>>

\* The response is written and the connection destroyed.
AbortHandshake(c) ==
    /\ Goto(c, "over")
    /\ saw' = [saw EXCEPT ![c] = Blank]
    /\ ever' = [ever EXCEPT ![c] = {}]
    /\ cut' = cut \cup {c}
    /\ UNCHANGED <<slotOf, cl>>

SessionParsed(c) ==
    /\ pc[c] = "session"
    /\ \/ <<"is", "session">> \in caller /\ Goto(c, "user") /\ UNCHANGED <<slotOf, saw, cl, cut, ever>>
       \/ AbortHandshake(c)  \* no session, or the store failed
    /\ UNCHANGED <<process, up, left, world>>

UserFound(c) ==
    /\ pc[c] = "user"
    /\ \/ /\ <<"is", "enabled">> \in caller
          /\ Goto(c, "client")
          /\ saw' = [saw EXCEPT ![c].admin = <<"is", "admin">> \in caller]
          /\ UNCHANGED <<slotOf, cl, cut, ever>>
       \/ <<"is", "enabled">> \notin caller /\ AbortHandshake(c)
    /\ UNCHANGED <<process, up, left, world>>

\* getClient: none for an instance that is unknown or disabled.
ClientFound(c) ==
    /\ pc[c] = "client"
    /\ \/ Goto(c, "slot") /\ UNCHANGED <<slotOf, saw, cl, cut, ever>>
       \/ AbortHandshake(c)
    /\ UNCHANGED <<process, up, left, world>>

\* mutant of SlotSeen: the call to the peer has no timeout
SlotWaits(c) ==
    /\ pc[c] = "slot" /\ mounted[slotOf[c]] # None
    /\ saw' = [saw EXCEPT ![c].server = mounted[slotOf[c]]]
    /\ Goto(c, "grant")
    /\ UNCHANGED <<process, slotOf, cl, up, left, cut, world, ever>>

\* An error of the peer, or none within 10 seconds, counts as an empty slot.
SlotSeen(c) ==
    /\ pc[c] = "slot"
    /\ \E s \in {mounted[slotOf[c]], None} : saw' = [saw EXCEPT ![c].server = s]
    /\ Goto(c, "grant")
    /\ UNCHANGED <<process, slotOf, cl, up, left, cut, world, ever>>

\* mutant of MayObserve: the case of an empty slot is left out
EmptyIsFree(c) == saw[c].admin \/ (saw[c].server # None => <<"granted", saw[c].server>> \in caller)

MayObserve(c) ==
    \/ saw[c].admin
    \/ saw[c].server # None /\ <<"granted", saw[c].server>> \in caller

\* The peer's URL for the slot and the kind of stream, with the peer's token.
Dial(c) == Goto(c, "dial") /\ up' = [up EXCEPT ![c] = "connecting"]

GrantChecked(c) ==
    /\ pc[c] = "grant"
    /\ \/ /\ MayObserve(c)
          /\ Dial(c)
          /\ saw' = [saw EXCEPT ![c] = Blank] /\ ever' = [ever EXCEPT ![c] = {}]
          /\ UNCHANGED <<slotOf, cl, cut>>
       \/ ~MayObserve(c) /\ AbortHandshake(c) /\ UNCHANGED up
    /\ UNCHANGED <<process, left, world>>

\* upstream 'open': without a browser there is no socket to pipe to.
UpstreamOpen(c) ==
    /\ pc[c] = "dial"
    /\ up' = [up EXCEPT ![c] = "open"]
    /\ \/ Goto(c, "piped") /\ cl' = [cl EXCEPT ![c] = "open"]
       \/ c \in cut /\ Goto(c, "over") /\ UNCHANGED cl
    /\ UNCHANGED <<process, slotOf, saw, left, cut, world, ever>>

\* upstream 'error' while dialling
UpstreamFails(c) ==
    /\ pc[c] = "dial"
    /\ AbortHandshake(c)
    /\ up' = [up EXCEPT ![c] = "closed"]
    /\ UNCHANGED <<process, left, world>>

-----------------------------------------------------------------------------
(* the pipe *)

\* The process is gone: every stream and every handler with it.
Down ==
    /\ alive' = FALSE /\ draining' = FALSE
    /\ pc' = [c \in Conns |-> IF pc[c] = "idle" THEN "idle" ELSE "over"]
    /\ saw' = [c \in Conns |-> Blank] /\ ever' = [c \in Conns |-> {}]
    /\ cl' = [c \in Conns |-> IF cl[c] = "none" THEN "none" ELSE "closed"]
    /\ up' = [c \in Conns |-> IF up[c] = "none" THEN "none" ELSE "closed"]
    /\ cut' = cut \cup {c \in Conns : pc[c] # "idle"}
    /\ UNCHANGED <<slotOf, left, world>>

Closing(state) == IF state = "open" THEN "closing" ELSE state

\* mutant of CloseBoth: forgets the socket to the peer
ClosesClientOnly(c, code, client, upstream) ==
    /\ cl' = [cl EXCEPT ![c] = Closing(client)]
    /\ up' = [up EXCEPT ![c] = upstream]
    /\ UNCHANGED <<process, pc, saw, ever, slotOf, left, cut, world>>

\* closeBoth, with the readyStates the event has left. ws throws on a code
\* that may not be sent, and nothing catches it.
CloseBoth(c, code, client, upstream) ==
    IF code \notin Sendable /\ "open" \in {client, upstream}
    THEN Down
    ELSE /\ cl' = [cl EXCEPT ![c] = Closing(client)]
         /\ up' = [up EXCEPT ![c] = Closing(upstream)]
         /\ UNCHANGED <<process, pc, saw, ever, slotOf, left, cut, world>>

\* mutant of ClientClosed: the answer to a close frame is awaited without end
AwaitsAnswer(c) ==
    /\ pc[c] = "piped" /\ cl[c] \in {"open", "closing"} /\ left[c] # "no"
    /\ CloseBoth(c, left[c], "closed", up[c])

ClientClosed(c) ==
    /\ pc[c] = "piped" /\ cl[c] \in {"open", "closing"}
    /\ \/ cl[c] = "closing" /\ CloseBoth(c, "normal", "closed", up[c])
       \/ cl[c] = "open" /\ left[c] # "no" /\ CloseBoth(c, left[c], "closed", up[c])
       \/ cl[c] = "open" /\ c \in cut /\ CloseBoth(c, "lost", "closed", up[c])

UpstreamClosed(c) ==
    /\ pc[c] = "piped" /\ up[c] \in {"open", "closing"}
    /\ \E code \in IF up[c] = "closing" THEN {"normal"} ELSE Codes :
           CloseBoth(c, code, cl[c], "closed")

\* upstream 'error' on an open stream: the listener of the handshake destroys
\* the browser's connection, then the pipe closes both sides with 1011.
UpstreamError(c) ==
    /\ pc[c] = "piped" /\ up[c] = "open"
    /\ cl' = [cl EXCEPT ![c] = Closing(cl[c])]
    /\ up' = [up EXCEPT ![c] = "closing"]
    /\ cut' = cut \cup {c}
    /\ UNCHANGED <<process, handlers, left, world, ever>>

\* client 'error': ws is already closing a connection on which it read what it
\* cannot understand. The pipe closes both sides with 1011.
ClientError(c) ==
    /\ pc[c] = "piped" /\ cl[c] = "open"
    /\ CloseBoth(c, "failed", "closing", up[c])

\* A socket to the peer without a pipe ends when the peer ends it.
OrphanClosed(c) ==
    /\ pc[c] = "over" /\ up[c] = "open"
    /\ up' = [up EXCEPT ![c] = "closed"]
    /\ UNCHANGED <<process, handlers, cl, left, cut, world, ever>>

-----------------------------------------------------------------------------
(* the process *)

\* A query that fails in the handler rejects a promise nobody handles.
DatabaseFails(c) ==
    /\ pc[c] \in {"user", "client", "grant"} /\ (pc[c] = "grant" => saw[c].server # None)
    /\ Down

\* SIGTERM, SIGINT: stop listening; a second one finds the server closed.
Shutdown ==
    /\ alive
    /\ IF draining THEN Down
       ELSE draining' = TRUE /\ UNCHANGED <<alive, handlers, cl, up, left, cut, world, ever>>

Busy(c) == pc[c] \notin {"idle", "over"} /\ cl[c] # "closed"
Drained == draining /\ (\A c \in Conns : ~Busy(c)) /\ Down

HardKill == draining /\ Down

Boot ==
    /\ ~alive
    /\ alive' = TRUE
    /\ UNCHANGED <<draining, handlers, cl, up, left, cut, world, ever>>

-----------------------------------------------------------------------------
(* what others do meanwhile *)

Recorded == ever' = [c \in Conns |->
    IF pc[c] \in Reading
    THEN ever[c] \cup caller' \cup {<<"mounted", mounted'[slotOf[c]]>>} ELSE ever[c]]

\* Sign-out, an admin's change of the user or of a grant.
CallerChanges ==
    /\ changes < MaxChanges /\ changes' = changes + 1
    /\ \E f \in Facts : caller' = (caller \cup {f}) \ (caller \cap {f})
    /\ UNCHANGED <<process, handlers, cl, up, left, cut, mounted>>
    /\ Recorded

Remount(s) ==
    /\ changes < MaxChanges /\ changes' = changes + 1
    /\ \E x \in Servers \cup {None} : x # mounted[s] /\ mounted' = [mounted EXCEPT ![s] = x]
    /\ UNCHANGED <<process, handlers, cl, up, left, cut, caller>>
    /\ Recorded

\* The browser closes its socket, a page always without a code, or unloads the
\* page. A socket that was not answered yet is torn down.
Leaves(c) ==
    /\ pc[c] # "idle" /\ left[c] = "no" /\ c \notin cut
    /\ IF cl[c] = "none" THEN cut' = cut \cup {c} /\ UNCHANGED left
       ELSE (\E code \in {"bare", "away"} : left' = [left EXCEPT ![c] = code]) /\ UNCHANGED cut
    /\ UNCHANGED <<process, handlers, cl, up, world, ever>>

NetworkLost(c) ==
    /\ pc[c] # "idle" /\ c \notin cut /\ cut' = cut \cup {c}
    /\ UNCHANGED <<process, handlers, cl, up, left, world, ever>>

\* Until it is piped nobody listens to the connection's 'error'.
ConnectionReset(c) == pc[c] \in Reading \cup {"dial"} /\ c \notin cut /\ Down

Handler(c) ==
    \/ SessionParsed(c) \/ UserFound(c) \/ ClientFound(c) \/ SlotSeen(c) \/ GrantChecked(c)
    \/ DatabaseFails(c) \/ UpstreamOpen(c) \/ UpstreamFails(c)
Stream(c) ==
    \/ ClientClosed(c) \/ UpstreamClosed(c) \/ UpstreamError(c) \/ ClientError(c)
    \/ OrphanClosed(c)

Next ==
    \/ \E c \in Conns : \/ \E s \in Slots : Upgrade(c, s)
                        \/ Handler(c) \/ Stream(c)
                        \/ Leaves(c) \/ NetworkLost(c) \/ ConnectionReset(c)
    \/ Shutdown \/ Drained \/ HardKill \/ Boot
    \/ CallerChanges
    \/ \E s \in Slots : Remount(s)
Spec == Init /\ [][Next]_vars

\* Awaits settle; ws ends a socket that is closing after 30 seconds. Nothing
\* bounds dialling, or ends a connection that is lost without a word.
Settles(c) ==
    \/ SessionParsed(c) \/ UserFound(c) \/ ClientFound(c) \/ SlotSeen(c) \/ GrantChecked(c)
    \/ DatabaseFails(c)
ClientEnds(c) == cl[c] = "closing" /\ ClientClosed(c)
UpstreamEnds(c) == up[c] = "closing" /\ UpstreamClosed(c)
Fair(c) == WF_vars(Settles(c)) /\ WF_vars(ClientEnds(c)) /\ WF_vars(UpstreamEnds(c))
Fairness == \A c \in Conns : Fair(c)
FairSpec == Spec /\ Fairness

-----------------------------------------------------------------------------
(* properties *)

\* Types, and which sockets a handler has.
TypeOK ==
    /\ \A c \in Conns : /\ pc[c] # "idle" => slotOf[c] \in Slots
                        /\ pc[c] \in {"idle"} \cup Reading => cl[c] = "none" /\ up[c] = "none"
                        /\ pc[c] = "piped" => cl[c] # "none" /\ up[c] # "none"
    /\ alive \in BOOLEAN /\ draining \in BOOLEAN /\ changes \in 0 .. MaxChanges
    /\ pc \in [Conns -> PCs] /\ slotOf \in [Conns -> Slots \cup {None}]
    /\ saw \in [Conns -> [admin : BOOLEAN, server : Servers \cup {None}]]
    /\ cl \in [Conns -> ReadyStates] /\ up \in [Conns -> ReadyStates]
    /\ left \in [Conns -> {"no", "bare", "away"}] /\ cut \subseteq Conns
    /\ caller \subseteq Facts /\ mounted \in [Slots -> Servers \cup {None}]
    /\ ever \in [Conns -> SUBSET Known]

\* A peer is dialled only for a caller who, since the request arrived, held a
\* session and an enabled account, and was an admin or could observe a server
\* that was mounted in the slot (ws-proxy.ts:34-57). The facts are read at
\* five different times: they need not hold together.
Admitted == [][\A c \in Conns : pc[c] # "dial" /\ pc'[c] = "dial" =>
    /\ {<<"is", "session">>, <<"is", "enabled">>} \subseteq ever[c]
    /\ \/ <<"is", "admin">> \in ever[c]
       \/ \E s \in Servers : {<<"mounted", s>>, <<"granted", s>>} \subseteq ever[c]]_vars

\* A stream never stays half open: once one side of a pipe is closed the other
\* is at least closing, whichever side ended first and however
\* (ws-proxy.ts:111-124).
NoHalfOpen == \A c \in Conns : pc[c] = "piped" => {cl[c], up[c]} # {"open", "closed"}

\* What the process is expected to get done it can do: a handler that reads has
\* a way on whatever the database and the peer answer, even when they do not,
\* and a socket that is closing can end (ws-proxy.ts:34-57,111-124).
NeverStuck == \A c \in Conns :
    /\ pc[c] \in Reading => ENABLED <<Settles(c)>>_vars
    /\ pc[c] = "piped" /\ cl[c] = "closing" => ENABLED <<ClientEnds(c)>>_vars
    /\ pc[c] = "piped" /\ up[c] = "closing" => ENABLED <<UpstreamEnds(c)>>_vars

\* Every upgrade request is decided: dialled, refused or dropped with the
\* process (ws-proxy.ts:32-57).
Decided == \A c \in Conns : pc[c] \in Reading ~> pc[c] \in {"dial", "over"}

\* When one side of a stream ends both do, if only with the process.
StreamsEnd == \A c \in Conns :
    pc[c] = "piped" /\ "closed" \in {cl[c], up[c]} ~> cl[c] = "closed" /\ up[c] = "closed"
=============================================================================
