------------------------------ MODULE EventLoop ------------------------------
(***************************************************************************)
(* The select() loop of the server: the client array it scans, the set of  *)
(* descriptors it watches, the reassembly of packets from partial reads,   *)
(* and the blocking sends of the handlers.                                 *)
(*                                                                         *)
(* The loop is one thread, but the kernel and the peers act between any    *)
(* two of its system calls: bytes arrive, peers stop reading or hang up,   *)
(* connections wait.  A packet is PacketLen bytes; which bytes they are    *)
(* does not matter here, only that none is lost, kept or taken twice.      *)
(* What a handler computes is left out: it sends to some of the clients,   *)
(* in the order of the array.                                              *)
(***************************************************************************)
EXTENDS Integers, Sequences, SequencesExt

CONSTANTS
  Fds,          \* descriptors accept() may return
  MaxClients,   \* capacity of the client array
  PacketLen,    \* sizeof(TizcordPacket)
  OutCap,       \* packets a socket takes before send() blocks
  MaxBytes,     \* bound: bytes a peer sends on one connection
  MaxBacklog    \* bound: connections waiting to be accepted

ASSUME EventLoopAssumption ==
  /\ MaxClients \in Nat \ {0}
  /\ PacketLen \in Nat \ {0}
  /\ OutCap \in Nat \ {0}
  /\ MaxBytes \in Nat
  /\ MaxBacklog \in Nat

VARIABLES
  clients,    \* ctx->clients: socket_fd and receive_offset, in order
  master,     \* master_set without the listening socket
  phase,      \* where the loop is: "select", "accept", "scan" or "send"
  ready,      \* read_set without the listening socket
  i,          \* the loop's index (1-based)
  rcpt,       \* descriptors the running handler sends a packet to
  to,         \* index of the client it comes to next
  backlog,    \* kernel: connections not accepted yet
  inbox,      \* kernel: bytes that have arrived and are not read
  outbox,     \* kernel: packets sent and not read by the peer
  hungUp,     \* descriptors whose peer has closed its end
  sent,       \* history: bytes the peer of a descriptor has sent
  handled,    \* history: packets of a descriptor given to a handler
  scanned     \* history: descriptors the running scan has looked at

loopVars == <<clients, master, phase, ready, i, rcpt, to>>
kernelVars == <<backlog, inbox, outbox, hungUp>>
historyVars == <<sent, handled, scanned>>
eventLoopVars == <<clients, master, phase, ready, i, rcpt, to, backlog, inbox, outbox, hungUp,
          sent, handled, scanned>>

FdAt(n) == clients[n].fd
TableFds == {FdAt(n) : n \in DOMAIN clients}

LoopTypeOK ==
  /\ clients \in Seq([fd : Fds, offset : 0 .. PacketLen - 1])
  /\ Len(clients) <= MaxClients
  /\ master \in SUBSET Fds
  /\ phase \in {"select", "accept", "scan", "send"}
  /\ ready \in SUBSET Fds
  /\ i \in 1 .. MaxClients + 1
  /\ rcpt \in SUBSET Fds
  /\ to \in 1 .. MaxClients + 1
  /\ backlog \in 0 .. MaxBacklog
  /\ inbox \in [Fds -> 0 .. MaxBytes]
  /\ outbox \in [Fds -> 0 .. OutCap]
  /\ hungUp \in SUBSET Fds
  /\ sent \in [Fds -> 0 .. MaxBytes]
  /\ handled \in [Fds -> 0 .. MaxBytes]
  /\ scanned \in SUBSET Fds

LoopInit ==
  /\ clients = <<>>
  /\ master = {}
  /\ phase = "select"
  /\ ready = {}
  /\ i = 1
  /\ rcpt = {}
  /\ to = 1
  /\ backlog = 0
  /\ inbox = [f \in Fds |-> 0]
  /\ outbox = [f \in Fds |-> 0]
  /\ hungUp = {}
  /\ sent = [f \in Fds |-> 0]
  /\ handled = [f \in Fds |-> 0]
  /\ scanned = {}

-----------------------------------------------------------------------------
(* The peers. *)

PeerConnects ==
  /\ backlog < MaxBacklog
  /\ backlog' = backlog + 1
  /\ UNCHANGED <<loopVars, inbox, outbox, hungUp, historyVars>>

PeerSends(f) ==
  /\ f \in master \ hungUp
  /\ sent[f] < MaxBytes
  /\ sent' = [sent EXCEPT ![f] = @ + 1]
  /\ inbox' = [inbox EXCEPT ![f] = @ + 1]
  /\ UNCHANGED <<loopVars, backlog, outbox, hungUp, handled, scanned>>

PeerReads(f) ==
  /\ f \in master \ hungUp
  /\ outbox[f] > 0
  /\ outbox' = [outbox EXCEPT ![f] = @ - 1]
  /\ UNCHANGED <<loopVars, backlog, inbox, hungUp, historyVars>>

(* A peer may hang up at any byte of a packet. *)
PeerHangsUp(f) ==
  /\ f \in master \ hungUp
  /\ hungUp' = hungUp \cup {f}
  /\ UNCHANGED <<loopVars, backlog, inbox, outbox, historyVars>>

-----------------------------------------------------------------------------
(* The loop. *)

(* select() returns when something is readable; a pending connection is    *)
(* taken before the clients are looked at.                                 *)
Select ==
  LET readable == {f \in master : inbox[f] > 0 \/ f \in hungUp}
  IN  /\ phase = "select"
      /\ backlog > 0 \/ readable # {}
      /\ ready' = readable
      /\ phase' = IF backlog > 0 THEN "accept" ELSE "scan"
      /\ i' = 1
      /\ scanned' = {}
      /\ UNCHANGED <<clients, master, rcpt, to, kernelVars, sent, handled>>

(* Mutant and original: the test of the capacity in handle_new_connection. *)
HasRoomOffByOne == Len(clients) <= MaxClients
HasRoom == Len(clients) < MaxClients

(* Mutant: the new descriptor joins read_set as well as master_set. *)
AcceptAsReady(f) ==
  /\ phase = "accept"
  /\ HasRoom
  /\ f \notin TableFds
  /\ clients' = Append(clients, [fd |-> f, offset |-> 0])
  /\ master' = master \cup {f}
  /\ ready' = ready \cup {f}
  /\ phase' = "scan"
  /\ backlog' = backlog - 1
  /\ UNCHANGED <<i, rcpt, to, inbox, outbox, hungUp, historyVars>>

(* handle_new_connection: a free descriptor joins the end of the array,    *)
(* with a zeroed node.                                                     *)
Accept(f) ==
  /\ phase = "accept"
  /\ HasRoom
  /\ f \notin TableFds
  /\ clients' = Append(clients, [fd |-> f, offset |-> 0])
  /\ master' = master \cup {f}
  /\ phase' = "scan"
  /\ backlog' = backlog - 1
  /\ UNCHANGED <<ready, i, rcpt, to, inbox, outbox, hungUp, historyVars>>

(* The connection is gone when accept() looks, or the array is full and it *)
(* is closed at once.                                                      *)
AcceptFails ==
  /\ phase = "accept"
  /\ phase' = "scan"
  /\ backlog' = backlog - 1
  /\ UNCHANGED <<clients, master, ready, i, rcpt, to, inbox, outbox, hungUp, historyVars>>

(* The scan is at a client, and the client is or is not in read_set. *)
AtClient == phase = "scan" /\ i <= Len(clients)
AtReadyClient == AtClient /\ FdAt(i) \in ready

Skip ==
  /\ AtClient
  /\ FdAt(i) \notin ready
  /\ i' = i + 1
  /\ scanned' = scanned \cup {FdAt(i)}
  /\ UNCHANGED <<clients, master, phase, ready, rcpt, to, kernelVars, sent, handled>>

(* Mutant: every read asks for a whole packet. *)
WholePacket == PacketLen

(* packet_receive_partial: what it still needs of the packet, and whether  *)
(* the socket has it.                                                      *)
Missing == PacketLen - clients[i].offset
HasPacket == inbox[FdAt(i)] >= Missing

(* It returns 1: the offset is reset and the packet goes to its handler.   *)
ReceivePacket ==
  LET f == FdAt(i)
  IN  /\ AtReadyClient
      /\ HasPacket
      /\ inbox' = [inbox EXCEPT ![f] = @ - Missing]
      /\ clients' = [clients EXCEPT ![i].offset = 0]
      /\ handled' = [handled EXCEPT ![f] = @ + 1]
      /\ scanned' = scanned \cup {f}
      /\ i' = i + 1
      /\ phase' = "send"
      /\ rcpt' \in SUBSET TableFds
      /\ to' = 1
      /\ UNCHANGED <<master, ready, backlog, outbox, hungUp, sent>>

(* Mutant: it tries again instead of returning 0. *)
ReceiveAll ==
  LET f == FdAt(i)
  IN  /\ AtReadyClient
      /\ ~HasPacket
      /\ f \notin hungUp
      /\ inbox' = [inbox EXCEPT ![f] = 0]
      /\ clients' = [clients EXCEPT ![i].offset = @ + inbox[f]]
      /\ UNCHANGED <<master, phase, ready, i, rcpt, to, backlog, outbox, hungUp, historyVars>>

(* It returns 0: recv() would block, the offset remembers what came. *)
ReceivePart ==
  LET f == FdAt(i)
  IN  /\ AtReadyClient
      /\ ~HasPacket
      /\ f \notin hungUp
      /\ inbox' = [inbox EXCEPT ![f] = 0]
      /\ clients' = [clients EXCEPT ![i].offset = @ + inbox[f]]
      /\ scanned' = scanned \cup {f}
      /\ i' = i + 1
      /\ UNCHANGED <<master, phase, ready, rcpt, to, backlog, outbox, hungUp, sent, handled>>

(* Mutant: the gap is closed over the next client. *)
WithoutNext(n) == RemoveAt(clients, IF n < Len(clients) THEN n + 1 ELSE n)

(* The array once the gap at n is closed. *)
Without(n) == RemoveAt(clients, n)

(* Mutant: the index moves on although the array has moved down. *)
LoseClientAndNext ==
  LET f == FdAt(i)
  IN  /\ AtReadyClient
      /\ HasPacket \/ f \in hungUp
      /\ master' = master \ {f}
      /\ clients' = Without(i)
      /\ inbox' = [inbox EXCEPT ![f] = 0]
      /\ outbox' = [outbox EXCEPT ![f] = 0]
      /\ hungUp' = hungUp \ {f}
      /\ sent' = [sent EXCEPT ![f] = 0]
      /\ handled' = [handled EXCEPT ![f] = 0]
      /\ scanned' = scanned \cup {f}
      /\ phase' = "send"
      /\ rcpt' \in SUBSET (TableFds \ {f})
      /\ to' = 1
      /\ i' = i + 1
      /\ UNCHANGED <<ready, backlog>>

(* It returns -1, when the peer has hung up or the packet is of no known   *)
(* type: the descriptor is closed and forgotten, the array closes the gap  *)
(* and the index stays on it.  The loss of an authenticated client is      *)
(* announced to some of the others.                                        *)
LoseClient ==
  LET f == FdAt(i)
  IN  /\ AtReadyClient
      /\ HasPacket \/ f \in hungUp
      /\ master' = master \ {f}
      /\ clients' = Without(i)
      /\ inbox' = [inbox EXCEPT ![f] = 0]
      /\ outbox' = [outbox EXCEPT ![f] = 0]
      /\ hungUp' = hungUp \ {f}
      /\ sent' = [sent EXCEPT ![f] = 0]
      /\ handled' = [handled EXCEPT ![f] = 0]
      /\ scanned' = scanned \cup {f}
      /\ phase' = "send"
      /\ rcpt' \in SUBSET (TableFds \ {f})
      /\ to' = 1
      /\ UNCHANGED <<ready, i, backlog>>

(* packet_send to the next client of the array, which blocks while the     *)
(* socket is full and fails, unnoticed, when the peer has hung up.         *)
Send ==
  /\ phase = "send"
  /\ to <= Len(clients)
  /\ to' = to + 1
  /\ IF FdAt(to) \in rcpt \ hungUp
       THEN outbox[FdAt(to)] < OutCap /\ outbox' = [outbox EXCEPT ![FdAt(to)] = @ + 1]
       ELSE outbox' = outbox
  /\ UNCHANGED <<clients, master, phase, ready, i, rcpt, backlog, inbox, hungUp, historyVars>>

HandlerReturns ==
  /\ phase = "send"
  /\ to > Len(clients)
  /\ phase' = "scan"
  /\ rcpt' = {}
  /\ to' = 1
  /\ UNCHANGED <<clients, master, ready, i, kernelVars, historyVars>>

EndScan ==
  /\ phase = "scan"
  /\ i > Len(clients)
  /\ phase' = "select"
  /\ UNCHANGED <<clients, master, ready, i, rcpt, to, kernelVars, historyVars>>

Server ==
  \/ Select
  \/ \E f \in Fds : Accept(f)
  \/ AcceptFails
  \/ Skip
  \/ ReceivePacket
  \/ ReceivePart
  \/ LoseClient
  \/ Send
  \/ HandlerReturns
  \/ EndScan

Peer(f) == PeerSends(f) \/ PeerReads(f) \/ PeerHangsUp(f)

LoopNext == Server \/ PeerConnects \/ \E f \in Fds : Peer(f)

LoopSpec == LoopInit /\ [][LoopNext]_eventLoopVars

(* The server runs whenever it can, and the peers go on reading.  Nothing  *)
(* obliges a peer to connect, to send or to hang up.                       *)
FairSpec ==
  /\ LoopSpec
  /\ WF_eventLoopVars(Server)
  /\ \A f \in Fds : WF_eventLoopVars(PeerReads(f))

-----------------------------------------------------------------------------
(* Properties. *)

(* The array, the watched set and the open descriptors are the same        *)
(* clients: closing a client in the middle of the array, or taking its     *)
(* descriptor again for another peer, loses and doubles nobody.            *)
ArrayIsMaster ==
  /\ TableFds = master
  /\ \A m, n \in DOMAIN clients : FdAt(m) = FdAt(n) => m = n

(* Every byte a peer has sent is in a packet that was handled, in the      *)
(* partial packet of its array entry, or still in the socket: no byte is   *)
(* lost or kept over when the array moves, a packet comes in pieces or a   *)
(* descriptor is used again.                                               *)
BytesAreAccounted ==
  \A n \in DOMAIN clients :
    LET f == FdAt(n)
    IN  sent[f] = handled[f] * PacketLen + clients[n].offset + inbox[f]

(* A scan comes to each ready client, and to no client twice, although     *)
(* clients are removed from the array under it.                            *)
ScanIsFair ==
  /\ phase = "scan" /\ i > Len(clients) => ready \subseteq scanned
  /\ AtClient => FdAt(i) \notin scanned

(* The readiness the scan acts on is of before the handlers it ran, but    *)
(* never of another connection: a client that is ready and not yet scanned *)
(* still has something to read, so the read is not a wasted one, and a     *)
(* connection accepted in this round waits for the next select.            *)
ReadinessHolds ==
  \A f \in ready \ scanned : f \in master /\ (inbox[f] > 0 \/ f \in hungUp)

(* A complete packet is handled, whatever the other peers send, leave half *)
(* sent or break off -- or its client is gone.                             *)
PacketsAreHandled ==
  \A f \in Fds, k \in 0 .. (MaxBytes \div PacketLen) - 1 :
    (f \in master /\ handled[f] = k /\ sent[f] >= (k + 1) * PacketLen)
      ~> (f \notin master \/ handled[f] # k)

(* README.md:35: "Packet reads and writes are currently blocking, so a     *)
(* slow or fragmented peer can still stall the event loop": no packet is   *)
(* handled while the packet of another client is half read.                *)
FragmentStalls ==
  [][\A f \in Fds : handled'[f] > handled[f] =>
       \A n \in DOMAIN clients : FdAt(n) # f => clients[n].offset = 0]_eventLoopVars
=============================================================================
