------------------------------- MODULE Socket -------------------------------
(***************************************************************************)
(* The class Socket (Core/Src/IP/Socket.cpp): one thread and one NetX Duo  *)
(* TCP socket that serves the peers of a port one after the other.  The IP *)
(* thread of NetX, which has a higher priority, processes the segments and *)
(* calls the class back: each callback posts an event flag, and the thread *)
(* takes whatever flags are set and handles them in a fixed order.  Every  *)
(* call of NetX holds the protection mutex of the IP instance, so a step   *)
(* of the thread is one such call, and segments arrive between any two.    *)
(*                                                                         *)
(* A connection is a number; its segments arrive in order (TCP sees to     *)
(* that), and k packets of data are <<c, 1>> .. <<c, k>>.                  *)
(***************************************************************************)
EXTENDS Naturals, SequencesExt

CONSTANTS MaxConnections,   \* bound: connections peers ask for
          MaxData,          \* bound: packets a peer sends on one connection
          MaxPending        \* maxConnections of listen: SYNs that may wait

Conns == 1 .. MaxConnections
None  == 0

ASSUME SocketAssumption ==
  /\ MaxConnections \in Nat \ {0} /\ MaxData \in Nat /\ MaxPending \in Nat \ {0}

Flags == {"Connected", "Disconnected", "DataReceived"}

VARIABLES
  tcp,         \* socketHandle.nx_tcp_socket_state
  peer,        \* the connection the socket is bound to, or None
  open,        \* there is a listen request for the port
  listening,   \* the listen request has the socket: the next SYN gets it
  pending,     \* the SYNs queued at the listen request, oldest first
  rxQueue,     \* the socket's receive queue
  notify,      \* nx_tcp_receive_callback is set
  events,      \* the flags of event
  e,           \* the local e of main
  pc,          \* what the thread does next
  asked,       \* peers: "idle", "asking", "done"
  sent,        \* peers: how many packets of data have arrived
  served,      \* history: the connections the socket was bound to, in order
  received,    \* history: what rxCallback was given
  early,       \* history: the last packet came before notify was set
  gone         \* history: a connection ended before handleConnected had it

ipVars   == <<peer, open, listening, pending, rxQueue, asked, sent>>
histVars == <<served, received, early, gone>>
vars     == <<tcp, ipVars, notify, events, e, pc, histVars>>

Steps == {"get", "waiting", "connected", "accepting", "accepted", "notify", "unaccept",
          "unlisten", "disconnected", "closing", "unbind", "relisten", "data"}

TypeOK ==
  /\ tcp \in {"closed", "listen", "synReceived", "established", "closeWait", "lastAck"}
  /\ peer \in Conns \cup {None} /\ (peer # None => ~listening)
  /\ open \in BOOLEAN /\ listening \in BOOLEAN /\ notify \in BOOLEAN
  /\ pending \in Seq(Conns) /\ Len(pending) <= MaxPending
  /\ rxQueue \in Seq(Conns \X (1 .. MaxData)) /\ received \in Seq(Conns \X (1 .. MaxData))
  /\ events \subseteq Flags /\ e \subseteq Flags /\ pc \in Steps
  /\ asked \in [Conns -> {"idle", "asking", "done"}]
  /\ sent \in [Conns -> 0 .. MaxData]
  /\ served \in Seq(Conns) /\ early \in BOOLEAN /\ gone \in BOOLEAN

(* After listen: the thread waits in tx_event_flags_get *)
Init ==
  /\ tcp = "listen" /\ peer = None /\ open = TRUE /\ listening = TRUE
  /\ pending = <<>> /\ rxQueue = <<>> /\ notify = FALSE
  /\ events = {} /\ e = {} /\ pc = "waiting"
  /\ asked = [c \in Conns |-> "idle"] /\ sent = [c \in Conns |-> 0]
  /\ served = <<>> /\ received = <<>> /\ early = FALSE /\ gone = FALSE

-----------------------------------------------------------------------------
(* The callbacks: tx_event_flags_set gives the flag to a thread that waits *)
(* for it, there and then, and else leaves it for the next get.            *)
Post(f) ==
  IF pc = "waiting" THEN e' = {f} /\ pc' = "connected" /\ UNCHANGED events
                    ELSE events' = events \cup {f} /\ UNCHANGED <<e, pc>>

NoPost == UNCHANGED <<events, e, pc>>

-----------------------------------------------------------------------------
(* The IP thread and the peers *)

Asks(c) ==
  \/ asked[c] = "idle" /\ \A d \in 1 .. c - 1 : asked[d] # "idle"
  \/ asked[c] = "asking" /\ c # peer /\ c \notin ToSet(pending)      \* the SYN again

Synchronise(c) ==
  /\ Asks(c) /\ open /\ listening
  /\ asked' = [asked EXCEPT ![c] = "asking"]
  /\ listening' = FALSE /\ peer' = c /\ served' = Append(served, c)
  /\ Post("Connected")
  /\ UNCHANGED <<tcp, open, pending, rxQueue, notify, sent, received, early, gone>>

QueueWithoutLimit(c) ==         \* mutant: nothing makes room
  /\ Asks(c) /\ open /\ ~listening
  /\ asked' = [asked EXCEPT ![c] = "asking"]
  /\ pending' = Append(pending, c)
  /\ NoPost
  /\ UNCHANGED <<tcp, peer, open, listening, rxQueue, notify, sent, histVars>>

(* No socket is free: the SYN is queued, and the oldest makes room for it. *)
Queue(c) ==
  /\ Asks(c) /\ open /\ ~listening
  /\ asked' = [asked EXCEPT ![c] = "asking"]
  /\ pending' = IF Len(pending) < MaxPending THEN Append(pending, c)
                                              ELSE Append(Tail(pending), c)
  /\ NoPost
  /\ UNCHANGED <<tcp, peer, open, listening, rxQueue, notify, sent, histVars>>

Refused(c) ==
  /\ Asks(c) /\ ~open
  /\ asked' = [asked EXCEPT ![c] = "done"]
  /\ NoPost
  /\ UNCHANGED <<tcp, peer, open, listening, pending, rxQueue, notify, sent, histVars>>

(* A peer that waits in the queue resets its connection request. *)
GiveUp(c) ==
  /\ \E i \in DOMAIN pending : pending[i] = c /\ pending' = RemoveAt(pending, i)
  /\ asked' = [asked EXCEPT ![c] = "done"]
  /\ NoPost
  /\ UNCHANGED <<tcp, peer, open, listening, rxQueue, notify, sent, histVars>>

(* The ACK of the handshake resumes the thread in accept. *)
Acknowledge ==
  /\ tcp = "synReceived"
  /\ tcp' = "established" /\ pc' = "accepted"
  /\ UNCHANGED <<ipVars, notify, events, e, histVars>>

(* A reset, or as many retries as NetX makes: accept returns an error.     *)
HandshakeFails ==
  /\ tcp = "synReceived"
  /\ tcp' = "listen" /\ pc' = "unlisten"
  /\ asked' = [asked EXCEPT ![peer] = "done"] /\ gone' = TRUE
  /\ UNCHANGED <<peer, open, listening, pending, rxQueue, notify, sent, events, e,
                 served, received, early>>

Data ==
  /\ tcp = "established" /\ sent[peer] < MaxData
  /\ sent' = [sent EXCEPT ![peer] = @ + 1]
  /\ rxQueue' = Append(rxQueue, <<peer, sent[peer] + 1>>)
  /\ early' = ~notify
  /\ IF notify THEN Post("DataReceived") ELSE NoPost
  /\ UNCHANGED <<tcp, peer, open, listening, pending, notify, asked, served, received, gone>>

(* A FIN, or a reset: once per connection the disconnect callback is made. *)
Ends(state) ==
  /\ tcp = "established"
  /\ tcp' = state
  /\ asked' = [asked EXCEPT ![peer] = "done"]
  /\ gone' = (gone \/ pc = "accepted")
  /\ Post("Disconnected")
  /\ UNCHANGED <<peer, open, listening, pending, rxQueue, notify, sent, served, received, early>>

Finish == Ends("closeWait")
Reset  == Ends("listen")

(* After a FIN a reset goes unnoticed.  The ACK of the last FIN, a reset,  *)
(* or the end of the retries resumes the thread in disconnect.             *)
ResetLate ==
  /\ tcp = "closeWait" /\ tcp' = "listen"
  /\ UNCHANGED <<ipVars, notify, events, e, pc, histVars>>

LastAck ==
  /\ tcp = "lastAck" /\ tcp' = "listen" /\ pc' = "unbind"
  /\ UNCHANGED <<ipVars, notify, events, e, histVars>>

-----------------------------------------------------------------------------
(* main *)

GetKeepsFlags ==                \* mutant: TX_OR for TX_OR_CLEAR
  /\ pc = "get" /\ events # {}
  /\ e' = events /\ pc' = "connected"
  /\ UNCHANGED <<tcp, ipVars, notify, events, histVars>>

Get ==
  /\ pc = "get" /\ events # {}
  /\ e' = events /\ events' = {} /\ pc' = "connected"
  /\ UNCHANGED <<tcp, ipVars, notify, histVars>>

Wait ==
  /\ pc = "get" /\ events = {}
  /\ pc' = "waiting"
  /\ UNCHANGED <<tcp, ipVars, notify, events, e, histVars>>

(* The three ifs of main; a handler that is not called is passed over.     *)
PassOver ==
  /\ \/ pc = "connected" /\ "Connected" \notin e /\ pc' = "disconnected"
     \/ pc = "disconnected" /\ "Disconnected" \notin e /\ pc' = "data"
  /\ UNCHANGED <<tcp, ipVars, notify, events, e, histVars>>

-----------------------------------------------------------------------------
(* handleConnected *)

Accept ==
  /\ pc = "connected" /\ "Connected" \in e
  /\ IF tcp = "listen" THEN tcp' = "synReceived" /\ pc' = "accepting" /\ rxQueue' = <<>>
                        ELSE /\ pc' = IF tcp = "established" THEN "accepted" ELSE "unlisten"
                             /\ UNCHANGED <<tcp, rxQueue>>
  /\ UNCHANGED <<peer, open, listening, pending, notify, asked, sent, events, e, histVars>>

(* nxd_tcp_socket_peer_info_get fails when the peer has ended meanwhile.   *)
PeerInfo ==
  /\ pc = "accepted"
  /\ pc' = IF tcp = "established" THEN "notify" ELSE "unaccept"
  /\ UNCHANGED <<tcp, ipVars, notify, events, e, histVars>>

ReceiveNotify ==
  /\ pc = "notify"
  /\ notify' = TRUE /\ pc' = "disconnected"
  /\ UNCHANGED <<tcp, ipVars, events, e, histVars>>

(* nx_tcp_server_socket_unaccept: the socket is unbound, and what is in    *)
(* its receive queue is released.                                          *)
UnacceptKeepsQueue ==           \* mutant: the receive queue is not flushed
  IF tcp \in {"listen", "closeWait", "lastAck"}
    THEN tcp' = "closed" /\ peer' = None /\ listening' = FALSE /\ UNCHANGED rxQueue
    ELSE UNCHANGED <<tcp, peer, listening, rxQueue>>

Unaccept ==
  IF tcp \in {"listen", "closeWait", "lastAck"}
    THEN tcp' = "closed" /\ peer' = None /\ listening' = FALSE /\ rxQueue' = <<>>
    ELSE UNCHANGED <<tcp, peer, listening, rxQueue>>

NoPeer ==
  /\ pc = "unaccept"
  /\ Unaccept /\ pc' = "unlisten"
  /\ UNCHANGED <<open, pending, asked, sent, notify, events, e, histVars>>

(* nx_tcp_server_socket_unlisten takes the listen request away, and        *)
(* nothing ever puts another one in its place; nx_tcp_socket_delete.       *)
Unlisten ==
  /\ pc = "unlisten"
  /\ open' = FALSE /\ pending' = <<>> /\ pc' = "disconnected"
  /\ UNCHANGED <<tcp, peer, listening, rxQueue, asked, sent, notify, events, e, histVars>>

-----------------------------------------------------------------------------
(* handleDisconnected *)

(* With NX_WAIT_FOREVER the thread waits for the ACK of its FIN; a socket  *)
(* that is not connected any more has nothing to disconnect.               *)
Disconnect ==
  /\ pc = "disconnected" /\ "Disconnected" \in e
  /\ IF tcp = "closeWait" THEN tcp' = "lastAck" /\ pc' = "closing"
                           ELSE pc' = "unbind" /\ UNCHANGED tcp
  /\ UNCHANGED <<ipVars, notify, events, e, histVars>>

Unbind ==
  /\ pc = "unbind"
  /\ Unaccept /\ pc' = "relisten"
  /\ UNCHANGED <<open, pending, asked, sent, notify, events, e, histVars>>

RelistenForgotten ==            \* mutant: relisten is not called
  /\ pc = "relisten" /\ tcp = "closed" /\ open /\ pending = <<>>
  /\ pc' = "data"
  /\ UNCHANGED <<tcp, ipVars, notify, events, e, histVars>>

(* nx_tcp_server_socket_relisten: the socket waits for a SYN, or takes the *)
(* oldest one that is queued, or there is no listen request any more.      *)
Relisten ==
  /\ pc = "relisten" /\ tcp = "closed" /\ open /\ pending = <<>>
  /\ listening' = TRUE /\ tcp' = "listen" /\ pc' = "data"
  /\ UNCHANGED <<peer, open, pending, rxQueue, notify, asked, sent, events, e, histVars>>

RelistenPending ==
  /\ pc = "relisten" /\ tcp = "closed" /\ open /\ pending # <<>>
  /\ peer' = Head(pending) /\ pending' = Tail(pending) /\ tcp' = "listen"
  /\ served' = Append(served, Head(pending))
  /\ events' = events \cup {"Connected"} /\ pc' = "data"
  /\ UNCHANGED <<open, listening, rxQueue, notify, asked, sent, e, received, early, gone>>

RelistenFails ==
  /\ pc = "relisten" /\ (tcp # "closed" \/ ~open)
  /\ pc' = "data"
  /\ UNCHANGED <<tcp, ipVars, notify, events, e, histVars>>

-----------------------------------------------------------------------------
(* handleDataReceived *)

ReceiveOnce ==                  \* mutant: the loop of handleDataReceived is dropped
  /\ pc = "data" /\ "DataReceived" \in e /\ peer # None /\ rxQueue # <<>>
  /\ received' = Append(received, Head(rxQueue)) /\ rxQueue' = Tail(rxQueue)
  /\ pc' = "get"
  /\ UNCHANGED <<tcp, peer, open, listening, pending, asked, sent, notify, events, e,
                 served, early, gone>>

Receive ==
  /\ pc = "data" /\ "DataReceived" \in e /\ peer # None /\ rxQueue # <<>>
  /\ received' = Append(received, Head(rxQueue)) /\ rxQueue' = Tail(rxQueue)
  /\ UNCHANGED <<tcp, peer, open, listening, pending, asked, sent, notify, events, e, pc,
                 served, early, gone>>

(* NX_NO_PACKET, an error, or no DataReceived: main goes round again.      *)
NoMoreData ==
  /\ pc = "data" /\ ("DataReceived" \notin e \/ peer = None \/ rxQueue = <<>>)
  /\ pc' = "get"
  /\ UNCHANGED <<tcp, ipVars, notify, events, e, histVars>>

-----------------------------------------------------------------------------
Handshake == Acknowledge \/ HandshakeFails

Ip ==
  \/ \E c \in Conns : Synchronise(c) \/ Queue(c) \/ Refused(c) \/ GiveUp(c)
  \/ Handshake \/ Data \/ Finish \/ Reset \/ ResetLate \/ LastAck

Main ==
  \/ Get \/ Wait \/ PassOver
  \/ Accept \/ PeerInfo \/ ReceiveNotify \/ NoPeer \/ Unlisten
  \/ Disconnect \/ Unbind \/ Relisten \/ RelistenPending \/ RelistenFails
  \/ Receive \/ NoMoreData

Next == Ip \/ Main

(* The thread is run when it is ready, and NetX repeats a SYN or a FIN     *)
(* until it is acknowledged or the retries are over.  When a peer asks for *)
(* a connection, sends, or ends is up to the peer.                         *)
Fairness == WF_vars(Main) /\ WF_vars(Handshake) /\ WF_vars(LastAck)

Spec == Init /\ [][Next]_vars /\ Fairness

-----------------------------------------------------------------------------
(* Properties *)

(* The thread closes a connection only when its peer has ended it: no      *)
(* Disconnected outlives its connection and hits the next one.             *)
ClosesOnlyWhatEnded ==
  pc = "disconnected" /\ "Disconnected" \in e => tcp \notin {"synReceived", "established"}

(* The thread does not go to sleep on data it was notified of, however the *)
(* notifications fall together with each other and with its own loop.      *)
NothingLeftWaiting == pc = "waiting" /\ tcp = "established" /\ ~early => rxQueue = <<>>

(* rxCallback is given the data of the connection that the socket was      *)
(* bound to last, in order and without a gap, never that of an older one.  *)
DataOfThePeer ==
  [][received' # received =>
       LET c == Last(served)
           before == IF received # <<>> /\ Last(received)[1] = c THEN Last(received)[2] ELSE 0
       IN  Last(received') = <<c, before + 1>>]_vars

Available == open /\ (listening \/ peer # None)

(* Unless a peer left before handleConnected was done with it, the port is *)
(* served again after each connection.                                     *)
AvailableAgain == []<>(Available \/ gone)
=============================================================================
