------------------------------- MODULE Stream -------------------------------
(***************************************************************************)
(* The sockets of a page that follows a slot: the log view, or the event   *)
(* list of the slot page. The page holds one handle; when its slot changes *)
(* it closes that socket and opens another, whose handle takes the place   *)
(* of the first. The close event of the first comes later.                 *)
(*                                                                         *)
(* The actions here are parts of the actions of module Pages.              *)
(***************************************************************************)
EXTENDS Naturals

CONSTANTS
    MaxConns,  \* bound: sockets, opened in order
    None

Conns == 1 .. MaxConns
ASSUME StreamAssumption == MaxConns \in Nat /\ None \notin Conns

VARIABLES
    sock, slotOf,      \* WebSocket.readyState, and the slot in its URL
    ws,                \* the handle
    connected, lines,  \* lines: the sockets whose frames are on screen
    clobbered          \* history: a close event dropped the handle of another socket

sockVars == <<sock, slotOf, ws, connected, lines, clobbered>>

SockInit ==
    /\ sock = [c \in Conns |-> "none"] /\ slotOf = [c \in Conns |-> None]
    /\ ws = None /\ connected = FALSE /\ lines = {} /\ clobbered = FALSE

Live == {"connecting", "open"}

\* mutant of Closing: the handle is dropped, the socket left alone
LeavesOpen(socks) == socks

\* WebSocket.close() on the socket of the handle
Closing(socks) ==
    [c \in Conns |-> IF c = ws /\ socks[c] \in Live THEN "closing" ELSE socks[c]]

Close ==
    /\ sock' = Closing(sock) /\ ws' = None /\ connected' = FALSE
    /\ UNCHANGED <<slotOf, lines, clobbered>>

\* mutant of Open: the lines of the old slot stay
KeepsLines(s, fresh) == \E c \in Conns :
    /\ sock[c] = "none" /\ \A d \in 1 .. c - 1 : sock[d] # "none"
    /\ sock' = [Closing(sock) EXCEPT ![c] = "connecting"]
    /\ slotOf' = [slotOf EXCEPT ![c] = s]
    /\ ws' = c /\ connected' = FALSE
    /\ UNCHANGED <<lines, clobbered>>

\* open(), openWs(): close the old socket, then take a new one. The log view
\* starts over, the event list keeps what it has.
Open(s, fresh) == \E c \in Conns :
    /\ sock[c] = "none" /\ \A d \in 1 .. c - 1 : sock[d] # "none"
    /\ sock' = [Closing(sock) EXCEPT ![c] = "connecting"]
    /\ slotOf' = [slotOf EXCEPT ![c] = s]
    /\ ws' = c /\ connected' = FALSE
    /\ lines' = IF fresh THEN {} ELSE lines
    /\ UNCHANGED clobbered

\* onopen of the log view; the event list has none
OnOpen(c) ==
    /\ sock[c] = "connecting" /\ sock' = [sock EXCEPT ![c] = "open"]
    /\ connected' = TRUE
    /\ UNCHANGED <<slotOf, ws, lines, clobbered>>
EventsOpen(c) ==
    /\ sock[c] = "connecting" /\ sock' = [sock EXCEPT ![c] = "open"]
    /\ UNCHANGED <<slotOf, ws, connected, lines, clobbered>>

\* mutant of OnClose: the view goes on saying it is connected
StaysConnected(c) ==
    /\ sock[c] \in Live \cup {"closing"} /\ sock' = [sock EXCEPT ![c] = "closed"]
    /\ ws' = None
    /\ clobbered' = (clobbered \/ ws \notin {c, None})
    /\ UNCHANGED <<slotOf, connected, lines>>

\* The handshake failed, the stream ended or the closing did. Whichever socket
\* this is, the handle is dropped.
OnClose(c) ==
    /\ sock[c] \in Live \cup {"closing"} /\ sock' = [sock EXCEPT ![c] = "closed"]
    /\ ws' = None /\ connected' = FALSE
    /\ clobbered' = (clobbered \/ ws \notin {c, None})
    /\ UNCHANGED <<slotOf, lines>>

\* Frames of a socket that is not open are dropped, by the log view also those
\* that come while it is paused.
OnMessage(c) ==
    /\ sock[c] = "open"
    /\ lines' = lines \cup {c}
    /\ UNCHANGED <<sock, slotOf, ws, connected, clobbered>>

Clear == lines' = {} /\ UNCHANGED <<sock, slotOf, ws, connected, clobbered>>
=============================================================================
