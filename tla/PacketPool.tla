----------------------------- MODULE PacketPool -----------------------------
(***************************************************************************)
(* Socket::transmit (Core/Src/IP/Socket.cpp) and what becomes of its       *)
(* packets in NetX Duo: the pool with its suspended threads, the queue of  *)
(* sent segments, the Ethernet driver, and the acknowledgements, timers    *)
(* and resets that end a segment.  A writer's call to NetX is one step,    *)
(* because it holds the mutex of the IP instance or disables interrupts;   *)
(* the IP thread walks its lists packet by packet.                         *)
(***************************************************************************)
EXTENDS Naturals, Sequences, FiniteSets

CONSTANTS
  Writers,     \* the threads that call Socket::transmit
  Packets,     \* the packets of the pool: one, on the board
  NULL,        \* no packet
  MaxRetries   \* nx_tcp_socket_timeout_max_retries

ASSUME PoolAssumption ==
  /\ NULL \notin Packets
  /\ MaxRetries \in Nat

VARIABLES
  pc,          \* where each writer is in transmit
  sendPacket,  \* its local variable
  mark,        \* nx_packet_tcp_queue_next: FREE, ALLOCATED, ENQUEUED (or a link)
  txDone,      \* nx_packet_queue_next = NX_DRIVER_TX_DONE
  available,   \* the packets in the available list
  suspended,   \* the writers in the suspension list of the pool
  sent,        \* the transmit_sent list of the socket
  released,    \* what an acknowledgement or a flush has cut from it and not walked yet
  driver,      \* the packets the Ethernet DMA has
  socket,      \* state of the socket: closed, open, closing
  link,        \* the driver has a link
  window,      \* the peer's window is open
  probing,     \* zero_window_probe_has_data
  retries      \* nx_tcp_socket_timeout_retries

vars == <<pc, sendPacket, mark, txDone, available, suspended, sent, released,
          driver, socket, link, window, probing, retries>>
pool == <<pc, sendPacket, mark, txDone, available, suspended>>
tcp  == <<socket, link, window, probing, retries>>

Elements(s) == {s[i] : i \in 1 .. Len(s)}

Init ==
  /\ pc = [w \in Writers |-> "idle"]
  /\ sendPacket = [w \in Writers |-> NULL]
  /\ mark = [p \in Packets |-> "FREE"]
  /\ txDone = [p \in Packets |-> FALSE]
  /\ available = Packets
  /\ suspended = <<>>
  /\ sent = <<>>
  /\ released = <<>>
  /\ driver = {}
  /\ socket = "closed"
  /\ link = TRUE
  /\ window = TRUE
  /\ probing = FALSE
  /\ retries = 0

TypeOK ==
  /\ pc \in [Writers -> {"idle", "suspended", "send", "stalled", "release"}]
  /\ sendPacket \in [Writers -> Packets \cup {NULL}]
  /\ mark \in [Packets -> {"FREE", "ALLOCATED", "ENQUEUED"}]
  /\ txDone \in [Packets -> BOOLEAN]
  /\ \A w \in Writers : sendPacket[w] # NULL <=> pc[w] \in {"send", "stalled", "release"}
  /\ available \subseteq Packets
  /\ suspended \in Seq(Writers)
  /\ sent \in Seq(Packets) /\ released \in Seq(Packets)
  /\ driver \subseteq Packets
  /\ socket \in {"closed", "open", "closing"}
  /\ {link, window, probing} \subseteq BOOLEAN
  /\ retries \in 0 .. MaxRetries

-----------------------------------------------------------------------------
(* nx_packet_release *)

HandOverToList(p, place, held) ==    \* mutant: nobody is resumed
  /\ pc' = place
  /\ sendPacket' = held
  /\ mark' = [mark EXCEPT ![p] = "FREE"]
  /\ available' = available \cup {p}
  /\ UNCHANGED <<txDone, suspended>>

(* The packet goes to the writer that has waited longest, else to the list;*)
(* place and held are what pc and sendPacket are besides.                  *)
HandOver(p, place, held) ==
  IF suspended # <<>>
  THEN /\ pc' = [place EXCEPT ![Head(suspended)] = "send"]
       /\ sendPacket' = [held EXCEPT ![Head(suspended)] = p]
       /\ suspended' = Tail(suspended)
       /\ mark' = [mark EXCEPT ![p] = "ALLOCATED"]
       /\ txDone' = [txDone EXCEPT ![p] = FALSE]
       /\ UNCHANGED available
  ELSE /\ pc' = place
       /\ sendPacket' = held
       /\ mark' = [mark EXCEPT ![p] = "FREE"]
       /\ available' = available \cup {p}
       /\ UNCHANGED <<txDone, suspended>>

-----------------------------------------------------------------------------
(* Socket::transmit *)

(* nx_packet_allocate without a time limit, and nx_packet_data_append *)
Allocate(w) ==
  /\ pc[w] = "idle"
  /\ IF available # {}
     THEN \E p \in available :
            /\ available' = available \ {p}
            /\ sendPacket' = [sendPacket EXCEPT ![w] = p]
            /\ mark' = [mark EXCEPT ![p] = "ALLOCATED"]
            /\ txDone' = [txDone EXCEPT ![p] = FALSE]
            /\ pc' = [pc EXCEPT ![w] = "send"]
            /\ UNCHANGED suspended
     ELSE /\ suspended' = Append(suspended, w)
          /\ pc' = [pc EXCEPT ![w] = "suspended"]
          /\ UNCHANGED <<sendPacket, mark, txDone, available>>
  /\ UNCHANGED <<sent, released, driver, tcp>>

(* nx_tcp_socket_send cannot send: the packet stays the caller's.  With a  *)
(* closed window it first waits for a tick.                                *)
Refuse(w) ==
  /\ \/ pc[w] = "send" /\ socket # "open"
     \/ pc[w] = "stalled"
  /\ pc' = [pc EXCEPT ![w] = "release"]
  /\ UNCHANGED <<sendPacket, mark, txDone, available, suspended, sent, released, driver, tcp>>

Stall(w) ==
  /\ pc[w] = "send" /\ socket = "open" /\ ~window
  /\ pc' = [pc EXCEPT ![w] = "stalled"]
  /\ probing' = TRUE
  /\ UNCHANGED <<sendPacket, mark, txDone, available, suspended, sent, released,
                 driver, socket, link, window, retries>>

(* The segment is queued and given to the driver, which without a link is  *)
(* done with it at once.                                                   *)
Enqueue(w) ==
  /\ pc[w] \in {"send", "stalled"} /\ socket = "open" /\ window
  /\ sent' = Append(sent, sendPacket[w])
  /\ mark' = [mark EXCEPT ![sendPacket[w]] = "ENQUEUED"]
  /\ driver' = IF link THEN driver \cup {sendPacket[w]} ELSE driver
  /\ txDone' = [txDone EXCEPT ![sendPacket[w]] = ~link]
  /\ retries' = IF sent = <<>> THEN 0 ELSE retries
  /\ probing' = FALSE
  /\ UNCHANGED <<available, suspended, released, socket, link, window>>

SendUnchecked(w) ==              \* mutant: the pointer is not cleared
  /\ Enqueue(w)
  /\ pc' = [pc EXCEPT ![w] = "release"]
  /\ UNCHANGED sendPacket

(* On success nxe_tcp_socket_send clears the caller's pointer, so that the *)
(* nx_packet_release of transmit finds nothing to release.                 *)
Send(w) ==
  /\ Enqueue(w)
  /\ sendPacket' = [sendPacket EXCEPT ![w] = NULL]
  /\ pc' = [pc EXCEPT ![w] = "idle"]

ReleaseNothing(w) ==             \* mutant: return at an error, without releasing
  /\ pc[w] = "release"
  /\ pc' = [pc EXCEPT ![w] = "idle"]
  /\ sendPacket' = [sendPacket EXCEPT ![w] = NULL]
  /\ UNCHANGED <<mark, txDone, available, suspended, sent, released, driver, tcp>>

Release(w) ==
  /\ pc[w] = "release"
  /\ IF mark[sendPacket[w]] = "ALLOCATED"
     THEN HandOver(sendPacket[w], [pc EXCEPT ![w] = "idle"], [sendPacket EXCEPT ![w] = NULL])
     ELSE /\ pc' = [pc EXCEPT ![w] = "idle"]
          /\ UNCHANGED <<sendPacket, mark, txDone, available, suspended>>
  /\ UNCHANGED <<sent, released, driver, tcp>>

Transmit(w) == Refuse(w) \/ Stall(w) \/ Send(w) \/ Release(w)

-----------------------------------------------------------------------------
(* The IP thread *)

(* One packet of those an acknowledgement or a flush has cut off: it is    *)
(* released, unless the driver still has it and will release it.           *)
WalkRegardless ==                \* mutant: the driver is not asked
  /\ released # <<>>
  /\ released' = Tail(released)
  /\ HandOver(Head(released), pc, sendPacket)
  /\ UNCHANGED <<sent, driver, tcp>>

Walk ==
  /\ released # <<>>
  /\ released' = Tail(released)
  /\ LET p == Head(released) IN
       IF txDone[p]
       THEN HandOver(p, pc, sendPacket)
       ELSE /\ mark' = [mark EXCEPT ![p] = "ALLOCATED"]
            /\ UNCHANGED <<pc, sendPacket, txDone, available, suspended>>
  /\ UNCHANGED <<sent, driver, tcp>>

(* The peer acknowledges the first n segments and says what its window is. *)
Ack(n) ==
  /\ released = <<>> /\ socket # "closed"
  /\ sent' = SubSeq(sent, n + 1, Len(sent))
  /\ released' = SubSeq(sent, 1, n)
  /\ retries' = IF n = 0 THEN retries ELSE 0
  /\ window' \in BOOLEAN
  /\ UNCHANGED <<pool, driver, socket, link, probing>>

TxDoneForgets(p) ==              \* mutant: only queued segments are looked after
  /\ released = <<>> /\ p \in driver
  /\ driver' = driver \ {p}
  /\ txDone' = [txDone EXCEPT ![p] = TRUE]
  /\ UNCHANGED <<pc, sendPacket, mark, available, suspended, sent, released, tcp>>

(* nx_packet_transmit_release, when the DMA is done with a frame *)
TxDone(p) ==
  /\ released = <<>> /\ p \in driver
  /\ driver' = driver \ {p}
  /\ CASE mark[p] = "ENQUEUED" ->
            /\ txDone' = [txDone EXCEPT ![p] = TRUE]
            /\ UNCHANGED <<pc, sendPacket, mark, available, suspended>>
       [] mark[p] = "ALLOCATED" -> HandOver(p, pc, sendPacket)
       [] mark[p] = "FREE" -> UNCHANGED pool
  /\ UNCHANGED <<sent, released, tcp>>

(* The connection is gone: the queue is flushed, a writer that waits for   *)
(* the window is sent away.                                                *)
Drop ==
  /\ socket' = "closed"
  /\ released' = sent
  /\ sent' = <<>>
  /\ pc' = [w \in Writers |-> IF pc[w] = "stalled" THEN "release" ELSE pc[w]]
  /\ UNCHANGED <<sendPacket, mark, txDone, available, suspended, driver, link,
                 window, probing, retries>>

TimeOut ==
  /\ released = <<>> /\ socket # "closed" /\ sent # <<>>
  /\ retries = MaxRetries /\ ~probing
  /\ Drop

PeerResets == released = <<>> /\ socket # "closed" /\ Drop

OneMore == IF retries < MaxRetries THEN retries + 1 ELSE retries

(* With a closed window a probe is sent.  As long as segments wait in the  *)
(* queue this never ends the connection: zero_window_probe_failure is set  *)
(* to 0 before each probe, and timeout_retries does not count meanwhile.   *)
Probe ==
  /\ released = <<>> /\ socket # "closed" /\ sent # <<>> /\ ~window
  /\ retries < MaxRetries \/ probing
  /\ probing' = TRUE
  /\ retries' = OneMore
  /\ UNCHANGED <<pool, sent, released, driver, socket, link, window>>

RetransmitRegardless(n) ==       \* mutant: segments the driver still has are sent again
  /\ released = <<>> /\ socket # "closed" /\ sent # <<>> /\ window
  /\ retries < MaxRetries \/ probing
  /\ txDone' = [p \in Packets |->
                  IF p \in Elements(SubSeq(sent, 1, n)) THEN ~link ELSE txDone[p]]
  /\ driver' = IF link THEN driver \cup Elements(SubSeq(sent, 1, n)) ELSE driver
  /\ probing' = FALSE
  /\ retries' = OneMore
  /\ UNCHANGED <<pc, sendPacket, mark, available, suspended, sent, released,
                 socket, link, window>>

(* The first n segments are given to the driver again, as many as it is    *)
(* done with and the congestion window allows.                             *)
Retransmit(n) ==
  /\ released = <<>> /\ socket # "closed" /\ sent # <<>> /\ window
  /\ retries < MaxRetries \/ probing
  /\ \A i \in 1 .. n : txDone[sent[i]]
  /\ n = 0 => ~txDone[Head(sent)]
  /\ txDone' = [p \in Packets |->
                  IF p \in Elements(SubSeq(sent, 1, n)) THEN ~link ELSE txDone[p]]
  /\ driver' = IF link THEN driver \cup Elements(SubSeq(sent, 1, n)) ELSE driver
  /\ probing' = FALSE
  /\ retries' = OneMore
  /\ UNCHANGED <<pc, sendPacket, mark, available, suspended, sent, released,
                 socket, link, window>>

Timer == TimeOut \/ Probe \/ \E n \in 0 .. Len(sent) : Retransmit(n)

-----------------------------------------------------------------------------
(* The socket's thread, and the link *)

Connect ==
  /\ socket = "closed" /\ released = <<>>
  /\ socket' = "open"
  /\ window' = TRUE
  /\ probing' = FALSE
  /\ retries' = 0
  /\ UNCHANGED <<pool, sent, released, driver, link>>

(* handleDisconnected: the FIN is sent, and waits for its acknowledgement. *)
Disconnect ==
  /\ socket = "open" /\ released = <<>>
  /\ socket' = "closing"
  /\ UNCHANGED <<pool, sent, released, driver, link, window, probing, retries>>

Closed ==
  /\ socket = "closing" /\ released = <<>> /\ sent = <<>>
  /\ socket' = "closed"
  /\ UNCHANGED <<pool, sent, released, driver, link, window, probing, retries>>

LinkChanges ==
  /\ link' = ~link
  /\ UNCHANGED <<pool, sent, released, driver, socket, window, probing, retries>>

Outside ==
  \/ Connect \/ Disconnect \/ Closed \/ PeerResets \/ LinkChanges
  \/ \E n \in 0 .. Len(sent) : Ack(n)

Next ==
  \/ \E w \in Writers : Allocate(w) \/ Transmit(w)
  \/ Walk \/ Timer \/ Outside
  \/ \E p \in Packets : TxDone(p)

(* The writers and the IP thread run, the DMA ends, the timer ticks.  When *)
(* there is something to say, and all the peer does, is up to the outside. *)
Fairness ==
  /\ \A w \in Writers : WF_vars(Transmit(w))
  /\ WF_vars(Walk) /\ WF_vars(Timer)
  /\ \A p \in Packets : WF_vars(TxDone(p))

Spec == Init /\ [][Next]_vars /\ Fairness

-----------------------------------------------------------------------------
(* Properties *)

(* Every packet is at one place: in the list, in the hands of one writer,  *)
(* in the queue of the socket, or with the driver alone; the marks that    *)
(* decide about its release agree, and the driver has nothing that anyone  *)
(* else may write into or send again.                                      *)
Held == {sendPacket[w] : w \in Writers} \ {NULL}
Queued == Elements(sent) \cup Elements(released)

OneOwner ==
  \A p \in Packets :
    /\ p \in available <=> mark[p] = "FREE"
    /\ p \in Queued <=> mark[p] = "ENQUEUED"
    /\ p \in Held => mark[p] = "ALLOCATED" /\ p \notin driver
    /\ \A v, w \in Writers : sendPacket[v] = p /\ sendPacket[w] = p => v = w
    /\ mark[p] = "ALLOCATED" => p \in Held \cup driver
    /\ p \in available => p \notin driver
    /\ p \in Queued => (txDone[p] <=> p \notin driver)

(* No writer waits for a packet while there is one.                        *)
NoIdlePacket == suspended # <<>> => available = {}

(* Every call of Socket::transmit returns, although with one packet in the *)
(* pool it waits for the acknowledgement of the message before it: at the  *)
(* latest when the connection is given up.  A peer that closes its window  *)
(* can make it wait for ever.                                              *)
EveryTransmitEnds ==
  \A w \in Writers : pc[w] # "idle" ~> (pc[w] = "idle" \/ ~window)
=============================================================================
