-------------------------- MODULE Connection_proofs --------------------------
(***************************************************************************)
(* Proofs about the two ends of a connection: the event loop of the server *)
(* (EventLoop), and what a person at a terminal can rely on                *)
(* (ClientSession).                                                        *)
(*                                                                         *)
(* EventLoop, for any descriptors, capacity, packet length and bounds.     *)
(* None of the invariants is inductive alone.  What a removal in the       *)
(* middle of the array must not disturb is the relation between the part   *)
(* of the array the scan has not reached and the two sets it works with:   *)
(* Pending states it.  Forgotten states that closing a descriptor leaves   *)
(* nothing of it behind, so that taking it again starts from zero.         *)
(*                                                                         *)
(* ClientSession, for any terminals, names and passwords, any size of      *)
(* users[] and any number of requests under way.  The properties are about *)
(* the client once it has read what is on its way (Settled), and every     *)
(* request, answer and notice changes what that will be.  The inductive    *)
(* invariant therefore speaks of all the states the client passes through  *)
(* while it reads: a notice finds it behind the login, and outside it      *)
(* bears no name.  OneAtATime follows the one request of a person who      *)
(* waits for each answer.                                                  *)
(***************************************************************************)
EXTENDS EventLoop, ClientSession, SequenceTheorems, FiniteSetTheorems, WellFoundedInduction, TLAPS

-----------------------------------------------------------------------------
(* The event loop. *)

Node == [fd : Fds, offset : 0 .. PacketLen - 1]

(* A descriptor outside the watched set has nothing in the kernel or in    *)
(* the history: the next peer that is given it finds it clean.             *)
Forgotten ==
  \A f \in Fds \ master :
    inbox[f] = 0 /\ outbox[f] = 0 /\ sent[f] = 0 /\ handled[f] = 0 /\ f \notin hungUp

(* The descriptors of the array from index n on. *)
From(n) == {FdAt(k) : k \in {m \in DOMAIN clients : m >= n}}

(* In a scan the clients from i on are those it has not looked at, and     *)
(* every ready client is one of them or has been looked at.                *)
Pending ==
  /\ phase = "accept" => backlog > 0 /\ i = 1 /\ scanned = {}
  /\ phase = "select" => ready \subseteq scanned
  /\ phase # "select" => From(i) \cap scanned = {} /\ ready \subseteq scanned \cup From(i)

LoopInv ==
  LoopTypeOK /\ ArrayIsMaster /\ BytesAreAccounted /\ ReadinessHolds /\ Forgotten /\ Pending

-----------------------------------------------------------------------------
(* The client array. *)

(* What LoopTypeOK says of the array, index by index. *)
LEMMA ArrayTyped ==
  ASSUME LoopTypeOK
  PROVE  /\ clients \in Seq(Node)
         /\ Len(clients) \in 0 .. MaxClients
         /\ DOMAIN clients = 1 .. Len(clients)
         /\ \A n \in 1 .. Len(clients) :
              clients[n] \in Node /\ FdAt(n) \in Fds /\ clients[n].offset \in 0 .. PacketLen - 1
  <1>1. clients \in Seq(Node) /\ Len(clients) <= MaxClients
      BY DEF LoopTypeOK, Node
  <1>2. Len(clients) \in Nat /\ DOMAIN clients = 1 .. Len(clients)
      BY <1>1, LenProperties
  <1>3. \A n \in 1 .. Len(clients) : clients[n] \in Node
      BY <1>1, ElementOfSeq
  <1>4. QED
      BY <1>1, <1>2, <1>3, EventLoopAssumption DEF Node, FdAt

(* Closing the gap at n moves the later clients down by one. *)
LEMMA GapCloses ==
  ASSUME LoopTypeOK, NEW n \in 1 .. Len(clients)
  PROVE  /\ Without(n) \in Seq(Node)
         /\ Len(Without(n)) = Len(clients) - 1
         /\ DOMAIN Without(n) = 1 .. Len(clients) - 1
         /\ \A k \in 1 .. Len(clients) - 1 :
              Without(n)[k] = IF k < n THEN clients[k] ELSE clients[k + 1]
  <1> DEFINE L == SubSeq(clients, 1, n - 1)
             R == SubSeq(clients, n + 1, Len(clients))
  <1>0. /\ clients \in Seq(Node) /\ Len(clients) \in Nat
        /\ \A k \in 1 .. Len(clients) : clients[k] \in Node
      BY ArrayTyped
  <1>1. L \in Seq(Node) /\ Len(L) = n - 1 /\ \A k \in 1 .. n - 1 : L[k] = clients[k]
      BY <1>0, SubSeqProperties
  <1>2. /\ R \in Seq(Node) /\ Len(R) = Len(clients) - n
        /\ \A k \in 1 .. Len(clients) - n : R[k] = clients[n + k]
      BY <1>0, SubSeqProperties
  <1>3. Without(n) = L \o R
      BY DEF Without, RemoveAt
  <1> HIDE DEF L, R
  <1>4. /\ L \o R \in Seq(Node)
        /\ Len(L \o R) = Len(L) + Len(R)
        /\ \A k \in 1 .. Len(L) + Len(R) : (L \o R)[k] = IF k <= Len(L) THEN L[k] ELSE R[k - Len(L)]
      BY <1>1, <1>2, ConcatProperties
  <1>5. Len(L) + Len(R) = Len(clients) - 1
      BY <1>0, <1>1, <1>2
  <1>6. DOMAIN (L \o R) = 1 .. Len(clients) - 1
      BY <1>4, <1>5, LenProperties
  <1>7. ASSUME NEW k \in 1 .. Len(clients) - 1
        PROVE  (L \o R)[k] = IF k < n THEN clients[k] ELSE clients[k + 1]
    <2>1. CASE k < n
        BY <1>0, <1>1, <1>4, <1>5, <2>1
    <2>2. CASE ~(k < n)
      <3>1. k - (n - 1) \in 1 .. Len(clients) - n /\ n + (k - (n - 1)) = k + 1
          BY <1>0, <2>2
      <3>2. (L \o R)[k] = R[k - (n - 1)]
          BY <1>0, <1>1, <1>4, <1>5, <2>2
      <3>3. R[k - (n - 1)] = clients[k + 1]
          BY <1>2, <3>1
      <3>4. QED
          BY <2>2, <3>2, <3>3
    <2>3. QED
        BY <2>1, <2>2
  <1>8. QED
      BY <1>3, <1>4, <1>5, <1>6, <1>7

(* A new client goes behind the others. *)
LEMMA ClientAppended ==
  ASSUME LoopTypeOK, NEW f \in Fds
  PROVE  LET s == Append(clients, [fd |-> f, offset |-> 0])
         IN  /\ s \in Seq(Node)
             /\ Len(s) = Len(clients) + 1
             /\ DOMAIN s = 1 .. Len(clients) + 1
             /\ \A k \in 1 .. Len(clients) : s[k] = clients[k]
             /\ s[Len(clients) + 1] = [fd |-> f, offset |-> 0]
  <1>1. [fd |-> f, offset |-> 0] \in Node
      BY EventLoopAssumption DEF Node
  <1>2. QED
      BY <1>1, ArrayTyped, AppendProperties, LenProperties

(* Storing an offset moves nobody. *)
LEMMA OffsetStored ==
  ASSUME LoopTypeOK, NEW n \in 1 .. Len(clients), NEW o \in 0 .. PacketLen - 1
  PROVE  LET s == [clients EXCEPT ![n].offset = o]
         IN  /\ s \in Seq(Node)
             /\ Len(s) = Len(clients)
             /\ DOMAIN s = 1 .. Len(clients)
             /\ \A k \in 1 .. Len(clients) :
                  /\ s[k].fd = clients[k].fd
                  /\ s[k].offset = IF k = n THEN o ELSE clients[k].offset
  <1> DEFINE e == [clients[n] EXCEPT !.offset = o]
  <1>0. clients \in Seq(Node) /\ Len(clients) \in Nat /\ clients[n] \in Node
      BY ArrayTyped
  <1>1. e \in Node /\ e.fd = clients[n].fd /\ e.offset = o
      BY <1>0 DEF Node
  <1>2. [clients EXCEPT ![n].offset = o] = [clients EXCEPT ![n] = e]
      OBVIOUS
  <1>3. /\ [clients EXCEPT ![n] = e] \in Seq(Node)
        /\ Len([clients EXCEPT ![n] = e]) = Len(clients)
        /\ \A k \in 1 .. Len(clients) : [clients EXCEPT ![n] = e][k] = IF k = n THEN e ELSE clients[k]
      BY <1>0, <1>1, ExceptSeq
  <1>4. QED
      BY <1>0, <1>1, <1>2, <1>3, LenProperties

-----------------------------------------------------------------------------
(* The inductive invariant, initially and after a step. *)

(* With no client there is nothing to lose, to keep or to scan.            *)
LEMMA IInvInit == LoopInit => LoopInv
  <1> SUFFICES ASSUME LoopInit PROVE LoopInv
      OBVIOUS
  <1>1. clients = <<>> /\ Len(clients) = 0 /\ DOMAIN clients = {}
      BY DEF LoopInit
  <1>2. LoopTypeOK
      BY <1>1, EventLoopAssumption DEF LoopInit, LoopTypeOK
  <1>3. QED
      BY <1>1, <1>2
         DEF LoopInit, LoopInv, ArrayIsMaster, TableFds, BytesAreAccounted, ReadinessHolds, Forgotten,
             Pending, From

(* ArrayIsMaster and Pending, by the indices of the array. *)
LEMMA ByIndex ==
  ASSUME LoopTypeOK
  PROVE  /\ ArrayIsMaster <=>
              /\ \A n \in 1 .. Len(clients) : FdAt(n) \in master
              /\ \A f \in master : \E n \in 1 .. Len(clients) : FdAt(n) = f
              /\ \A m, n \in 1 .. Len(clients) : FdAt(m) = FdAt(n) => m = n
         /\ From(i) \cap scanned = {} <=>
              \A n \in 1 .. Len(clients) : n >= i => FdAt(n) \notin scanned
         /\ ready \subseteq scanned \cup From(i) <=>
              \A f \in ready \ scanned : \E n \in 1 .. Len(clients) : n >= i /\ FdAt(n) = f
  <1>1. DOMAIN clients = 1 .. Len(clients)
      BY ArrayTyped
  <1>2. QED
      BY <1>1 DEF ArrayIsMaster, TableFds, From

(* The counters are natural numbers within their bounds. *)
LEMMA Counters ==
  ASSUME LoopTypeOK, NEW f \in Fds
  PROVE  /\ inbox[f] \in Nat /\ inbox[f] <= MaxBytes
         /\ outbox[f] \in Nat /\ outbox[f] <= OutCap
         /\ sent[f] \in Nat /\ sent[f] <= MaxBytes
         /\ handled[f] \in Nat /\ handled[f] <= MaxBytes
         /\ handled[f] * PacketLen \in Nat
  <1>1. /\ inbox[f] \in 0 .. MaxBytes /\ outbox[f] \in 0 .. OutCap
        /\ sent[f] \in 0 .. MaxBytes /\ handled[f] \in 0 .. MaxBytes
      BY DEF LoopTypeOK
  <1>2. MaxBytes \in Nat /\ OutCap \in Nat /\ PacketLen \in Nat
      BY EventLoopAssumption
  <1>3. \A m, n \in Nat : m * n \in Nat
      OBVIOUS
  <1>4. QED
      BY <1>1, <1>2, <1>3

(* The scalars, too. *)
LEMMA Scalars ==
  ASSUME LoopTypeOK
  PROVE  /\ backlog \in Nat /\ backlog <= MaxBacklog
         /\ i \in Nat /\ i >= 1 /\ i <= MaxClients + 1
         /\ to \in Nat /\ to >= 1 /\ to <= MaxClients + 1
         /\ MaxClients \in Nat /\ PacketLen \in Nat /\ PacketLen >= 1
  BY EventLoopAssumption DEF LoopTypeOK

(* The bytes of a client that arrived are some of those its peer sent. *)
LEMMA Received ==
  ASSUME LoopTypeOK, ArrayIsMaster, BytesAreAccounted, NEW f \in master
  PROVE  inbox[f] <= sent[f]
  <1>1. PICK n \in 1 .. Len(clients) : FdAt(n) = f
      BY ByIndex
  <1>2. sent[f] = handled[f] * PacketLen + clients[n].offset + inbox[f]
      BY <1>1, ArrayTyped DEF BytesAreAccounted
  <1>3. f \in Fds /\ clients[n].offset \in Nat
      BY <1>1, ArrayTyped
  <1>4. QED
      BY <1>2, <1>3, Counters

(* The steps of the kernel and the peers, and those of the loop that leave *)
(* the array and the place of the scan in it alone.                        *)
LEMMA QuietStep ==
  ASSUME LoopInv, LoopTypeOK', Forgotten',
         UNCHANGED <<clients, master, ready, i, scanned, handled>>,
         \/ phase' = phase /\ (phase = "accept" => backlog' > 0)
         \/ phase # "select" /\ phase' = "scan",
         \A f \in Fds : inbox'[f] >= inbox[f] /\ sent'[f] - inbox'[f] = sent[f] - inbox[f],
         hungUp \subseteq hungUp'
  PROVE  LoopInv'
  <1> USE DEF LoopInv
  <1>1. ArrayIsMaster'
      BY DEF ArrayIsMaster, TableFds, FdAt
  <1>2. BytesAreAccounted'
    <2> SUFFICES ASSUME NEW n \in 1 .. Len(clients)
                 PROVE  sent'[FdAt(n)] =
                          handled[FdAt(n)] * PacketLen + clients[n].offset + inbox'[FdAt(n)]
        BY ArrayTyped DEF BytesAreAccounted, FdAt
    <2>1. FdAt(n) \in Fds /\ clients[n].offset \in Nat
        BY ArrayTyped
    <2>2. sent[FdAt(n)] = handled[FdAt(n)] * PacketLen + clients[n].offset + inbox[FdAt(n)]
        BY ArrayTyped DEF BytesAreAccounted
    <2>3. inbox'[FdAt(n)] \in Int /\ sent'[FdAt(n)] \in Int
        BY <2>1, EventLoopAssumption DEF LoopTypeOK
    <2>4. sent'[FdAt(n)] - inbox'[FdAt(n)] = sent[FdAt(n)] - inbox[FdAt(n)]
        BY <2>1
    <2>5. \A s, t, x, y, b, o \in Int : s = b + o + x /\ t - y = s - x => t = b + o + y
        OBVIOUS
    <2>6. handled[FdAt(n)] * PacketLen \in Int /\ sent[FdAt(n)] \in Int /\ inbox[FdAt(n)] \in Int
        BY <2>1, Counters
    <2>7. QED
        BY <2>1, <2>2, <2>3, <2>4, <2>5, <2>6
  <1>3. ReadinessHolds'
    <2> SUFFICES ASSUME NEW f \in ready \ scanned PROVE f \in master /\ (inbox'[f] > 0 \/ f \in hungUp')
        BY DEF ReadinessHolds
    <2>1. f \in Fds /\ f \in master /\ (inbox[f] > 0 \/ f \in hungUp)
        BY DEF ReadinessHolds, LoopTypeOK
    <2>2. inbox'[f] \in Int
        BY <2>1, EventLoopAssumption DEF LoopTypeOK
    <2>3. QED
        BY <2>1, <2>2, Counters
  <1>4. Pending'
      BY DEF Pending, From, FdAt
  <1>5. QED
      BY <1>1, <1>2, <1>3, <1>4

(* Peers connect, send, read and hang up between any two steps of the loop. *)
LEMMA PeerStep ==
  ASSUME LoopInv, PeerConnects \/ \E f \in Fds : Peer(f)
  PROVE  LoopInv'
  <1> USE DEF LoopInv
  <1>0. /\ master \subseteq Fds
        /\ \A f \in Fds : inbox[f] \in Nat /\ sent[f] \in Nat /\ outbox[f] \in Nat
        /\ phase = "accept" => backlog > 0
      BY Counters DEF LoopTypeOK, Pending
  <1>1. CASE PeerConnects
    <2>1. /\ backlog' = backlog + 1 /\ backlog < MaxBacklog
          /\ UNCHANGED <<loopVars, inbox, outbox, hungUp, historyVars>>
        BY <1>1 DEF PeerConnects
    <2>2. backlog' \in 0 .. MaxBacklog /\ backlog' > 0
        BY <2>1, Scalars, EventLoopAssumption
    <2>3. LoopTypeOK' /\ Forgotten'
        BY <2>1, <2>2 DEF LoopTypeOK, Forgotten, loopVars, historyVars
    <2>4. QED
        BY <1>0, <2>1, <2>2, <2>3, QuietStep DEF loopVars, historyVars
  <1>2. ASSUME NEW f \in Fds, PeerSends(f) PROVE LoopInv'
    <2>1. /\ f \in master /\ sent[f] < MaxBytes
          /\ sent' = [sent EXCEPT ![f] = sent[f] + 1]
          /\ inbox' = [inbox EXCEPT ![f] = inbox[f] + 1]
          /\ UNCHANGED <<loopVars, backlog, outbox, hungUp, handled, scanned>>
        BY <1>2 DEF PeerSends
    <2>2. inbox[f] <= sent[f]
        BY <2>1, Received
    <2>3. sent[f] + 1 \in 0 .. MaxBytes /\ inbox[f] + 1 \in 0 .. MaxBytes
        BY <1>0, <2>1, <2>2, EventLoopAssumption
    <2>4. LoopTypeOK' /\ Forgotten'
        BY <2>1, <2>3 DEF LoopTypeOK, Forgotten, loopVars
    <2>5. ASSUME NEW g \in Fds
          PROVE  inbox'[g] >= inbox[g] /\ sent'[g] - inbox'[g] = sent[g] - inbox[g]
      <3>1. inbox'[g] = (IF g = f THEN inbox[g] + 1 ELSE inbox[g])
            /\ sent'[g] = (IF g = f THEN sent[g] + 1 ELSE sent[g])
          BY <2>1 DEF LoopTypeOK
      <3>2. QED
          BY <1>0, <3>1
    <2>6. QED
        BY <1>0, <2>1, <2>4, <2>5, QuietStep DEF loopVars
  <1>3. ASSUME NEW f \in Fds, PeerReads(f) PROVE LoopInv'
    <2>1. /\ f \in master /\ outbox[f] > 0
          /\ outbox' = [outbox EXCEPT ![f] = outbox[f] - 1]
          /\ UNCHANGED <<loopVars, backlog, inbox, hungUp, historyVars>>
        BY <1>3 DEF PeerReads
    <2>2. outbox[f] - 1 \in 0 .. OutCap
        BY <2>1, Counters, EventLoopAssumption
    <2>3. LoopTypeOK' /\ Forgotten'
        BY <2>1, <2>2 DEF LoopTypeOK, Forgotten, loopVars, historyVars
    <2>4. QED
        BY <1>0, <2>1, <2>3, QuietStep DEF loopVars, historyVars
  <1>4. ASSUME NEW f \in Fds, PeerHangsUp(f) PROVE LoopInv'
    <2>1. /\ f \in master /\ hungUp' = hungUp \cup {f}
          /\ UNCHANGED <<loopVars, backlog, inbox, outbox, historyVars>>
        BY <1>4 DEF PeerHangsUp
    <2>2. LoopTypeOK' /\ Forgotten'
        BY <2>1 DEF LoopTypeOK, Forgotten, loopVars, historyVars
    <2>3. QED
        BY <1>0, <2>1, <2>2, QuietStep DEF loopVars, historyVars
  <1>5. QED
      BY <1>1, <1>2, <1>3, <1>4 DEF Peer

(* The steps of the loop that move no client and read nothing. *)
LEMMA LoopStep ==
  ASSUME LoopInv, Select \/ AcceptFails \/ Skip \/ Send \/ HandlerReturns \/ EndScan
  PROVE  LoopInv'
  <1> USE DEF LoopInv
  <1>0. /\ master \subseteq Fds /\ ready \subseteq Fds /\ scanned \subseteq Fds
        /\ \A f \in Fds : inbox[f] \in Nat /\ sent[f] \in Nat /\ outbox[f] \in Nat
        /\ phase = "accept" => backlog > 0
      BY Counters DEF LoopTypeOK, Pending
  <1>1. CASE Select
    <2>1. /\ ready' = {f \in master : inbox[f] > 0 \/ f \in hungUp}
          /\ phase' = IF backlog > 0 THEN "accept" ELSE "scan"
          /\ i' = 1 /\ scanned' = {}
          /\ UNCHANGED <<clients, master, rcpt, to, kernelVars, sent, handled>>
        BY <1>1 DEF Select
    <2>2. LoopTypeOK'
        BY <1>0, <2>1, EventLoopAssumption DEF LoopTypeOK, kernelVars
    <2>3. ArrayIsMaster' /\ BytesAreAccounted' /\ Forgotten' /\ ReadinessHolds'
        BY <2>1 DEF ArrayIsMaster, TableFds, FdAt, BytesAreAccounted, Forgotten, ReadinessHolds,
                    kernelVars
    <2>4. \A f \in master : \E n \in 1 .. Len(clients) : FdAt(n) = f
        BY ByIndex
    <2>5. Pending'
      <3>1. DOMAIN clients = 1 .. Len(clients) /\ Len(clients) \in Nat
          BY ArrayTyped
      <3>2. master = {FdAt(n) : n \in {m \in DOMAIN clients : m >= 1}}
          BY <3>1 DEF ArrayIsMaster, TableFds
      <3>3. From(i)' = master
          BY <2>1, <3>2 DEF From, FdAt
      <3>4. QED
          BY <2>1, <3>3 DEF Pending, kernelVars
    <2>6. QED
        BY <2>2, <2>3, <2>5
  <1>2. CASE AcceptFails
    <2>1. /\ phase = "accept" /\ phase' = "scan" /\ backlog' = backlog - 1
          /\ UNCHANGED <<clients, master, ready, i, rcpt, to, inbox, outbox, hungUp, historyVars>>
        BY <1>2 DEF AcceptFails
    <2>2. backlog' \in 0 .. MaxBacklog
        BY <1>0, <2>1, Scalars, EventLoopAssumption
    <2>3. LoopTypeOK' /\ Forgotten'
        BY <2>1, <2>2 DEF LoopTypeOK, Forgotten, historyVars
    <2>4. QED
        BY <1>0, <2>1, <2>3, QuietStep DEF historyVars
  <1>3. CASE Skip
    <2>1. /\ phase = "scan" /\ i <= Len(clients) /\ FdAt(i) \notin ready
          /\ i' = i + 1 /\ scanned' = scanned \cup {FdAt(i)}
          /\ UNCHANGED <<clients, master, phase, ready, rcpt, to, kernelVars, sent, handled>>
        BY <1>3 DEF Skip, AtClient
    <2>2. i \in 1 .. Len(clients) /\ i + 1 \in 1 .. MaxClients + 1 /\ FdAt(i) \in Fds
        BY <2>1, Scalars, ArrayTyped
    <2>3. LoopTypeOK'
        BY <2>1, <2>2 DEF LoopTypeOK, kernelVars
    <2>4. ArrayIsMaster' /\ BytesAreAccounted' /\ Forgotten' /\ ReadinessHolds'
        BY <2>1 DEF ArrayIsMaster, TableFds, FdAt, BytesAreAccounted, Forgotten, ReadinessHolds,
                    kernelVars
    <2>5. From(i) = From(i + 1) \cup {FdAt(i)} /\ FdAt(i) \notin From(i + 1)
        BY <2>2, ArrayTyped, ByIndex DEF From
    <2>6. From(i)' = From(i + 1)
        BY <2>1 DEF From, FdAt
    <2>7. Pending'
        BY <2>1, <2>5, <2>6 DEF Pending, kernelVars
    <2>8. QED
        BY <2>3, <2>4, <2>7
  <1>4. CASE Send
    <2>1. /\ phase = "send" /\ to <= Len(clients) /\ to' = to + 1
          /\ UNCHANGED <<clients, master, phase, ready, i, rcpt, backlog, inbox, hungUp, historyVars>>
        BY <1>4 DEF Send
    <2>2. to \in 1 .. Len(clients) /\ to + 1 \in 1 .. MaxClients + 1 /\ FdAt(to) \in master
        BY <2>1, Scalars, ArrayTyped, ByIndex
    <2>3. outbox' \in [Fds -> 0 .. OutCap] /\ \A f \in Fds \ master : outbox'[f] = outbox[f]
      <3>1. CASE FdAt(to) \in rcpt \ hungUp
        <4>1. outbox[FdAt(to)] < OutCap /\ outbox' = [outbox EXCEPT ![FdAt(to)] = outbox[FdAt(to)] + 1]
            BY <1>4, <3>1 DEF Send
        <4>2. outbox[FdAt(to)] + 1 \in 0 .. OutCap
            BY <1>0, <2>2, <4>1, EventLoopAssumption
        <4>3. QED
            BY <2>2, <4>1, <4>2 DEF LoopTypeOK
      <3>2. CASE FdAt(to) \notin rcpt \ hungUp
          BY <1>4, <3>2 DEF Send, LoopTypeOK
      <3>3. QED
          BY <3>1, <3>2
    <2>4. LoopTypeOK' /\ Forgotten'
        BY <2>1, <2>2, <2>3 DEF LoopTypeOK, Forgotten, historyVars
    <2>5. QED
        BY <1>0, <2>1, <2>4, QuietStep DEF historyVars
  <1>5. CASE HandlerReturns
    <2>1. /\ phase = "send" /\ phase' = "scan" /\ rcpt' = {} /\ to' = 1
          /\ UNCHANGED <<clients, master, ready, i, kernelVars, historyVars>>
        BY <1>5 DEF HandlerReturns
    <2>2. LoopTypeOK' /\ Forgotten'
        BY <2>1, Scalars DEF LoopTypeOK, Forgotten, kernelVars, historyVars
    <2>3. QED
        BY <1>0, <2>1, <2>2, QuietStep DEF kernelVars, historyVars
  <1>6. CASE EndScan
    <2>1. /\ phase = "scan" /\ i > Len(clients) /\ phase' = "select"
          /\ UNCHANGED <<clients, master, ready, i, rcpt, to, kernelVars, historyVars>>
        BY <1>6 DEF EndScan
    <2>2. LoopTypeOK'
        BY <2>1 DEF LoopTypeOK, kernelVars, historyVars
    <2>3. ArrayIsMaster' /\ BytesAreAccounted' /\ Forgotten' /\ ReadinessHolds'
        BY <2>1 DEF ArrayIsMaster, TableFds, FdAt, BytesAreAccounted, Forgotten, ReadinessHolds,
                    kernelVars, historyVars
    <2>4. From(i) = {}
        BY <2>1, Scalars, ArrayTyped DEF From
    <2>5. Pending'
        BY <2>1, <2>4 DEF Pending, historyVars
    <2>6. QED
        BY <2>2, <2>3, <2>5
  <1>7. QED
      BY <1>1, <1>2, <1>3, <1>4, <1>5, <1>6

(* A new client: its descriptor was nobody's, so it has sent nothing yet   *)
(* and is not ready, and it is behind the clients the scan will come to.   *)
LEMMA AcceptStep ==
  ASSUME LoopInv, NEW f \in Fds, Accept(f)
  PROVE  LoopInv'
  <1> USE DEF LoopInv
  <1> DEFINE L == Len(clients)
  <1>1. /\ phase = "accept" /\ L < MaxClients /\ f \notin TableFds
        /\ clients' = Append(clients, [fd |-> f, offset |-> 0])
        /\ master' = master \cup {f} /\ phase' = "scan" /\ backlog' = backlog - 1
        /\ UNCHANGED <<ready, i, rcpt, to, inbox, outbox, hungUp, historyVars>>
      BY DEF Accept, HasRoom
  <1>2. backlog > 0 /\ i = 1 /\ scanned = {} /\ ready \subseteq From(i) /\ f \notin master
      BY <1>1 DEF Pending, ArrayIsMaster
  <1>3. L \in Nat /\ DOMAIN clients = 1 .. L
      BY ArrayTyped
  <1>4. /\ clients' \in Seq(Node) /\ Len(clients') = L + 1 /\ DOMAIN clients' = 1 .. L + 1
        /\ \A k \in 1 .. L : clients'[k] = clients[k]
        /\ clients'[L + 1] = [fd |-> f, offset |-> 0]
      BY <1>1, ClientAppended
  <1> HIDE DEF L
  <1>5. L + 1 <= MaxClients /\ backlog' \in 0 .. MaxBacklog
      BY <1>1, <1>2, <1>3, Scalars, EventLoopAssumption
  <1>6. LoopTypeOK'
      BY <1>1, <1>4, <1>5 DEF LoopTypeOK, Node, historyVars
  <1>7. \A k \in 1 .. L + 1 : k \in 1 .. L \/ k = L + 1
      BY <1>3
  <1>8. 1 .. L \subseteq 1 .. L + 1 /\ L + 1 \in 1 .. L + 1 /\ L + 1 \notin 1 .. L
      BY <1>3
  <1>9. ArrayIsMaster'
    <2>1. TableFds' = TableFds \cup {f}
        BY <1>3, <1>4, <1>7, <1>8 DEF TableFds, FdAt
    <2>2. ASSUME NEW m \in 1 .. L + 1, NEW n \in 1 .. L + 1, clients'[m].fd = clients'[n].fd
          PROVE  m = n
        BY <1>1, <1>3, <1>4, <1>7, <2>2 DEF ArrayIsMaster, TableFds, FdAt
    <2>3. QED
        BY <1>1, <1>4, <2>1, <2>2 DEF ArrayIsMaster, FdAt
  <1>10. BytesAreAccounted'
    <2>1. ASSUME NEW n \in 1 .. L
          PROVE  sent[clients'[n].fd] =
                   handled[clients'[n].fd] * PacketLen + clients'[n].offset + inbox[clients'[n].fd]
        BY <1>3, <1>4 DEF BytesAreAccounted, FdAt
    <2>2. sent[f] = handled[f] * PacketLen + 0 + inbox[f]
        BY <1>2, Scalars DEF Forgotten
    <2>3. QED
        BY <1>1, <1>4, <1>7, <2>1, <2>2 DEF BytesAreAccounted, FdAt, historyVars
  <1>11. ReadinessHolds' /\ Forgotten'
      BY <1>1 DEF ReadinessHolds, Forgotten, historyVars
  <1>12. Pending'
    <2>1. From(i) \subseteq From(i)'
        BY <1>1, <1>3, <1>4, <1>8 DEF From, FdAt
    <2>2. QED
        BY <1>1, <1>2, <2>1 DEF Pending, historyVars
  <1>13. QED
      BY <1>6, <1>9, <1>10, <1>11, <1>12

(* A read at i stores an offset and takes bytes of one socket.  What is    *)
(* left to show of a handler is that the bytes add up.                     *)
LEMMA ReadStep ==
  ASSUME LoopInv, LoopTypeOK', AtReadyClient, NEW o \in 0 .. PacketLen - 1,
         clients' = [clients EXCEPT ![i].offset = o],
         i' = i + 1, scanned' = scanned \cup {FdAt(i)},
         UNCHANGED <<master, ready, backlog, outbox, hungUp, sent>>,
         phase' \in {"scan", "send"},
         \A f \in Fds \ {FdAt(i)} : inbox'[f] = inbox[f] /\ handled'[f] = handled[f],
         sent[FdAt(i)] = handled'[FdAt(i)] * PacketLen + o + inbox'[FdAt(i)]
  PROVE  LoopInv'
  <1> USE DEF LoopInv
  <1> DEFINE f == FdAt(i)
  <1>1. i \in 1 .. Len(clients) /\ phase = "scan" /\ f \in Fds
      BY Scalars, ArrayTyped DEF AtReadyClient, AtClient
  <1>2. DOMAIN clients = 1 .. Len(clients) /\ Len(clients) \in Nat
      BY ArrayTyped
  <1>3. /\ DOMAIN clients' = 1 .. Len(clients)
        /\ \A k \in 1 .. Len(clients) :
             /\ FdAt(k)' = FdAt(k)
             /\ clients'[k].offset = IF k = i THEN o ELSE clients[k].offset
      BY <1>1, OffsetStored DEF FdAt
  <1>4. ArrayIsMaster'
      BY <1>2, <1>3 DEF ArrayIsMaster, TableFds
  <1>5. f \in master /\ \A k \in 1 .. Len(clients) : k # i => FdAt(k) \in Fds \ {f}
      BY <1>1, ByIndex, ArrayTyped
  <1>6. BytesAreAccounted'
    <2> SUFFICES ASSUME NEW n \in 1 .. Len(clients)
                 PROVE  sent[FdAt(n)] =
                          handled'[FdAt(n)] * PacketLen + clients'[n].offset + inbox'[FdAt(n)]
        BY <1>3 DEF BytesAreAccounted
    <2>1. CASE n = i
        BY <1>3, <2>1
    <2>2. CASE n # i
      <3>1. sent[FdAt(n)] = handled[FdAt(n)] * PacketLen + clients[n].offset + inbox[FdAt(n)]
          BY <1>2 DEF BytesAreAccounted
      <3>2. QED
          BY <1>3, <1>5, <2>2, <3>1
    <2>3. QED
        BY <2>1, <2>2
  <1>7. ReadinessHolds'
      BY DEF ReadinessHolds, LoopTypeOK
  <1>8. Forgotten'
      BY <1>5 DEF Forgotten
  <1>9. Pending'
    <2>1. From(i)' = From(i + 1)
        BY <1>2, <1>3 DEF From
    <2>2. From(i) = From(i + 1) \cup {f} /\ f \notin From(i + 1)
        BY <1>1, ArrayTyped, ByIndex DEF From
    <2>3. QED
        BY <1>1, <2>1, <2>2 DEF Pending
  <1>10. QED
      BY <1>4, <1>6, <1>7, <1>8, <1>9

(* A packet whose last byte has come is given to its handler once, and a   *)
(* part of one is kept where the next read finds it.                       *)
LEMMA ReceiveStep ==
  ASSUME LoopInv, ReceivePacket \/ ReceivePart
  PROVE  LoopInv'
  <1> USE DEF LoopInv
  <1> DEFINE f == FdAt(i)
             h == handled[f]
             o == clients[i].offset
             b == inbox[f]
  <1>1. AtReadyClient /\ i \in 1 .. Len(clients) /\ f \in Fds
      BY Scalars, ArrayTyped DEF ReceivePacket, ReceivePart, AtReadyClient, AtClient
  <1>2. h \in Nat /\ o \in 0 .. PacketLen - 1 /\ b \in Nat /\ PacketLen \in Nat /\ PacketLen >= 1
      BY <1>1, ArrayTyped, Counters, Scalars
  <1>3. sent[f] = h * PacketLen + o + b /\ sent[f] <= MaxBytes /\ sent[f] \in Nat
      BY <1>1, ArrayTyped, Counters DEF BytesAreAccounted
  <1>4. i + 1 \in 1 .. MaxClients + 1 /\ 1 \in 1 .. MaxClients + 1 /\ Len(clients) <= MaxClients
      BY <1>1, Scalars, ArrayTyped
  <1>5. CASE ReceivePacket
    <2>1. /\ b >= PacketLen - o
          /\ inbox' = [inbox EXCEPT ![f] = b - (PacketLen - o)]
          /\ clients' = [clients EXCEPT ![i].offset = 0]
          /\ handled' = [handled EXCEPT ![f] = h + 1]
          /\ scanned' = scanned \cup {f} /\ i' = i + 1
          /\ phase' = "send" /\ rcpt' \in SUBSET TableFds /\ to' = 1
          /\ UNCHANGED <<master, ready, backlog, outbox, hungUp, sent>>
        BY <1>5 DEF ReceivePacket, HasPacket, Missing
    <2> HIDE DEF h, o, b
    <2>2. (h + 1) * PacketLen = h * PacketLen + PacketLen
        BY <1>2
    <2>3. \A m, p \in Nat : p >= 1 => m * p \in Nat /\ m <= m * p
        OBVIOUS
    <2>4. h * PacketLen \in Nat /\ (h + 1) * PacketLen \in Nat /\ h + 1 <= (h + 1) * PacketLen
        BY <1>2, <2>3
    <2>5. /\ b - (PacketLen - o) \in Nat
          /\ sent[f] = (h + 1) * PacketLen + 0 + (b - (PacketLen - o))
        BY <1>2, <1>3, <2>1, <2>2, <2>4
    <2>6. b - (PacketLen - o) \in 0 .. MaxBytes /\ h + 1 \in 0 .. MaxBytes
        BY <1>2, <1>3, <2>4, <2>5, EventLoopAssumption
    <2>7. 0 \in 0 .. PacketLen - 1
        BY <1>2
    <2>8. clients' \in Seq(Node) /\ Len(clients') = Len(clients)
        BY <1>1, <2>1, <2>7, OffsetStored
    <2>9. rcpt' \in SUBSET Fds
        BY <2>1 DEF ArrayIsMaster, LoopTypeOK
    <2>10. LoopTypeOK'
        BY <1>1, <1>4, <2>1, <2>6, <2>8, <2>9 DEF LoopTypeOK, Node
    <2>11. /\ inbox'[f] = b - (PacketLen - o) /\ handled'[f] = h + 1
           /\ \A g \in Fds \ {f} : inbox'[g] = inbox[g] /\ handled'[g] = handled[g]
        BY <1>1, <2>1 DEF LoopTypeOK
    <2>12. QED
        BY <1>1, <2>1, <2>5, <2>7, <2>10, <2>11, ReadStep
  <1>6. CASE ReceivePart
    <2>1. /\ b < PacketLen - o
          /\ inbox' = [inbox EXCEPT ![f] = 0]
          /\ clients' = [clients EXCEPT ![i].offset = o + b]
          /\ scanned' = scanned \cup {f} /\ i' = i + 1
          /\ UNCHANGED <<master, phase, ready, rcpt, to, backlog, outbox, hungUp, sent, handled>>
        BY <1>2, <1>6 DEF ReceivePart, HasPacket, Missing
    <2>2. phase' = "scan"
        BY <1>1, <2>1 DEF AtReadyClient, AtClient
    <2> HIDE DEF h, o, b
    <2>3. o + b \in 0 .. PacketLen - 1 /\ 0 \in 0 .. MaxBytes
        BY <1>2, <2>1, EventLoopAssumption
    <2>4. h * PacketLen \in Nat
        BY <1>2
    <2>5. sent[f] = h * PacketLen + (o + b) + 0
        BY <1>2, <1>3, <2>4
    <2>6. clients' \in Seq(Node) /\ Len(clients') = Len(clients)
        BY <1>1, <2>1, <2>3, OffsetStored
    <2>7. LoopTypeOK'
        BY <1>1, <1>4, <2>1, <2>3, <2>6 DEF LoopTypeOK, Node
    <2>8. /\ inbox'[f] = 0 /\ handled'[f] = h
          /\ \A g \in Fds \ {f} : inbox'[g] = inbox[g] /\ handled'[g] = handled[g]
        BY <1>1, <2>1 DEF LoopTypeOK, h
    <2>9. QED
        BY <1>1, <2>1, <2>2, <2>3, <2>5, <2>7, <2>8, ReadStep
  <1>7. QED
      BY <1>5, <1>6

(* A client is removed: those behind it move down by one and the index     *)
(* stays, so the scan comes next to the client that was behind it.         *)
LEMMA LoseStep ==
  ASSUME LoopInv, LoseClient
  PROVE  LoopInv'
  <1> USE DEF LoopInv
  <1> DEFINE f == FdAt(i)
             L == Len(clients)
  <1>1. i \in 1 .. L /\ f \in Fds /\ phase = "scan" /\ f \in ready /\ L \in Nat
      BY Scalars, ArrayTyped DEF LoseClient, AtReadyClient, AtClient
  <1>2. /\ master' = master \ {f}
        /\ clients' = Without(i)
        /\ inbox' = [inbox EXCEPT ![f] = 0] /\ outbox' = [outbox EXCEPT ![f] = 0]
        /\ hungUp' = hungUp \ {f}
        /\ sent' = [sent EXCEPT ![f] = 0] /\ handled' = [handled EXCEPT ![f] = 0]
        /\ scanned' = scanned \cup {f}
        /\ phase' = "send" /\ rcpt' \in SUBSET (TableFds \ {f}) /\ to' = 1
        /\ UNCHANGED <<ready, i, backlog>>
      BY DEF LoseClient
  <1>3. DOMAIN clients = 1 .. L /\ L <= MaxClients
      BY ArrayTyped, Scalars
  <1>4. /\ clients' \in Seq(Node) /\ Len(clients') = L - 1 /\ DOMAIN clients' = 1 .. L - 1
        /\ \A k \in 1 .. L - 1 : clients'[k] = IF k < i THEN clients[k] ELSE clients[k + 1]
      BY <1>1, <1>2, GapCloses
  <1> HIDE DEF L
  <1>5. \A k \in 1 .. L - 1 : k \in 1 .. L /\ k + 1 \in 1 .. L
      BY <1>1
  <1>6. \A k \in 1 .. L : k # i => (k < i /\ k \in 1 .. L - 1) \/ (k - 1 >= i /\ k - 1 \in 1 .. L - 1)
      BY <1>1
  <1>7. /\ \A n \in 1 .. L : FdAt(n) \in master
        /\ \A g \in master : \E n \in 1 .. L : FdAt(n) = g
        /\ \A m, n \in 1 .. L : FdAt(m) = FdAt(n) => m = n
      BY ByIndex DEF L
  <1> DEFINE old(k) == IF k < i THEN k ELSE k + 1
  <1>8. \A k \in 1 .. L - 1 : old(k) \in 1 .. L /\ old(k) # i /\ clients'[k] = clients[old(k)]
      BY <1>1, <1>4, <1>5
  <1>9. \A m, n \in 1 .. L - 1 : old(m) = old(n) => m = n
      BY <1>1
  <1>10. \A k \in 1 .. L : k # i => \E n \in 1 .. L - 1 : old(n) = k /\ (k >= i => n >= i)
    <2> SUFFICES ASSUME NEW k \in 1 .. L, k # i
                 PROVE  \E n \in 1 .. L - 1 : old(n) = k /\ (k >= i => n >= i)
        OBVIOUS
    <2>1. CASE k < i
        BY <1>1, <1>6, <2>1
    <2>2. CASE ~(k < i)
      <3>1. k - 1 \in 1 .. L - 1 /\ k - 1 >= i /\ old(k - 1) = k
          BY <1>1, <1>6, <2>2
      <3>2. QED
          BY <3>1
    <2>3. QED
        BY <2>1, <2>2
  <1>11. \A k \in 1 .. L - 1 : k >= i => old(k) >= i
      BY <1>1
  <1> HIDE DEF old
  <1>12. LoopTypeOK'
    <2>1. /\ L - 1 <= MaxClients /\ 0 \in 0 .. MaxBytes /\ 0 \in 0 .. OutCap
          /\ 1 \in 1 .. MaxClients + 1
        BY <1>1, <1>3, EventLoopAssumption
    <2>2. TableFds \subseteq Fds
        BY DEF ArrayIsMaster, LoopTypeOK
    <2>3. QED
        BY <1>1, <1>2, <1>4, <2>1, <2>2 DEF LoopTypeOK, Node
  <1>13. \A k \in 1 .. L - 1 : clients'[k].fd = FdAt(old(k)) /\ FdAt(old(k)) # f
      BY <1>1, <1>7, <1>8 DEF FdAt
  <1>14. ArrayIsMaster'
    <2>1. TableFds' = master'
      <3>1. \A k \in 1 .. L - 1 : clients'[k].fd \in master'
          BY <1>2, <1>7, <1>8, <1>13
      <3>2. ASSUME NEW g \in master' PROVE \E k \in 1 .. L - 1 : clients'[k].fd = g
        <4>1. PICK n \in 1 .. L : FdAt(n) = g
            BY <1>2, <1>7
        <4>2. n # i
            BY <1>2, <4>1
        <4>3. PICK k \in 1 .. L - 1 : old(k) = n
            BY <1>10, <4>2
        <4>4. QED
            BY <1>13, <4>1, <4>3
      <3>3. QED
          BY <1>4, <3>1, <3>2 DEF TableFds, FdAt
    <2>2. ASSUME NEW m \in 1 .. L - 1, NEW n \in 1 .. L - 1, clients'[m].fd = clients'[n].fd
          PROVE  m = n
        BY <1>7, <1>8, <1>9, <1>13, <2>2
    <2>3. QED
        BY <1>4, <2>1, <2>2 DEF ArrayIsMaster, FdAt
  <1>15. BytesAreAccounted'
    <2> SUFFICES ASSUME NEW k \in 1 .. L - 1
                 PROVE  sent'[clients'[k].fd] =
                          handled'[clients'[k].fd] * PacketLen + clients'[k].offset
                            + inbox'[clients'[k].fd]
        BY <1>4 DEF BytesAreAccounted, FdAt
    <2> DEFINE n == old(k)
               g == FdAt(n)
    <2>1. n \in 1 .. L /\ g \in Fds /\ g # f /\ clients'[k].fd = g /\ clients'[k].offset = clients[n].offset
        BY <1>8, <1>13, ArrayTyped DEF L
    <2>2. sent[g] = handled[g] * PacketLen + clients[n].offset + inbox[g]
        BY <1>3, <2>1 DEF BytesAreAccounted
    <2>3. sent'[g] = sent[g] /\ handled'[g] = handled[g] /\ inbox'[g] = inbox[g]
        BY <1>2, <2>1 DEF LoopTypeOK
    <2>4. QED
        BY <2>1, <2>2, <2>3
  <1>16. ReadinessHolds'
    <2> SUFFICES ASSUME NEW g \in ready \ scanned, g # f
                 PROVE  g \in master' /\ (inbox'[g] > 0 \/ g \in hungUp')
        BY <1>2 DEF ReadinessHolds
    <2>1. g \in Fds /\ inbox'[g] = inbox[g]
        BY <1>2 DEF LoopTypeOK
    <2>2. QED
        BY <1>2, <2>1 DEF ReadinessHolds
  <1>17. Forgotten'
      BY <1>1, <1>2 DEF Forgotten, LoopTypeOK
  <1>18. Pending'
    <2>1. From(i)' = {clients'[k].fd : k \in {m \in 1 .. L - 1 : m >= i}}
        BY <1>2, <1>4 DEF From, FdAt
    <2>2. From(i) = {FdAt(k) : k \in {m \in 1 .. L : m >= i}}
        BY <1>3 DEF From
    <2>3. From(i)' \subseteq From(i) \ {f}
        BY <1>8, <1>11, <1>13, <2>1, <2>2
    <2>4. From(i) \ {f} \subseteq From(i)'
      <3> SUFFICES ASSUME NEW k \in 1 .. L, k >= i, k # i PROVE FdAt(k) \in From(i)'
          BY <2>2
      <3>1. PICK n \in 1 .. L - 1 : old(n) = k /\ n >= i
          BY <1>10
      <3>2. QED
          BY <1>13, <2>1, <3>1
    <2>5. From(i) \cap scanned = {} /\ ready \subseteq scanned \cup From(i)
        BY <1>1 DEF Pending
    <2>6. QED
        BY <1>2, <2>3, <2>4, <2>5 DEF Pending
  <1>19. QED
      BY <1>12, <1>14, <1>15, <1>16, <1>17, <1>18

(* Every step of the loop and of the peers preserves the invariant.        *)
LEMMA IInvStep == LoopInv /\ [LoopNext]_eventLoopVars => LoopInv'
  <1> SUFFICES ASSUME LoopInv, [LoopNext]_eventLoopVars PROVE LoopInv'
      OBVIOUS
  <1>1. CASE UNCHANGED eventLoopVars
    <2>1. LoopTypeOK' /\ ReadinessHolds' /\ Forgotten'
        BY <1>1 DEF eventLoopVars, LoopInv, LoopTypeOK, ReadinessHolds, Forgotten
    <2>2. ArrayIsMaster' /\ BytesAreAccounted'
        BY <1>1 DEF eventLoopVars, LoopInv, ArrayIsMaster, TableFds, FdAt, BytesAreAccounted
    <2>3. Pending'
      <3>1. From(i)' = From(i)
          BY <1>1 DEF eventLoopVars, From, FdAt
      <3>2. QED
          BY <1>1, <3>1 DEF eventLoopVars, LoopInv, Pending
    <2>4. QED
        BY <2>1, <2>2, <2>3 DEF LoopInv
  <1>2. CASE LoopNext
    <2>1. CASE PeerConnects \/ \E f \in Fds : Peer(f)
        BY <2>1, PeerStep
    <2>2. CASE Select \/ AcceptFails \/ Skip \/ Send \/ HandlerReturns \/ EndScan
        BY <2>2, LoopStep
    <2>3. CASE \E f \in Fds : Accept(f)
        BY <2>3, AcceptStep
    <2>4. CASE ReceivePacket \/ ReceivePart
        BY <2>4, ReceiveStep
    <2>5. CASE LoseClient
        BY <2>5, LoseStep
    <2>6. QED
        BY <1>2, <2>1, <2>2, <2>3, <2>4, <2>5 DEF LoopNext, Server
  <1>3. QED
      BY <1>1, <1>2

(* It therefore holds in every state the server and its peers reach.       *)
LEMMA LoopInvariance == LoopSpec => []LoopInv
  BY IInvInit, IInvStep, PTL DEF LoopSpec

-----------------------------------------------------------------------------
(* The invariants. *)

(* Index, offset, counters and sets stay within their bounds: the array    *)
(* never outgrows its capacity, an offset never reaches a whole packet and *)
(* no counter goes below zero.                                             *)
THEOREM LoopTyping == LoopSpec => []LoopTypeOK
  BY LoopInvariance, PTL DEF LoopInv

(* The array and the watched set are the same clients, each once.          *)
THEOREM NobodyLost == LoopSpec => []ArrayIsMaster
  BY LoopInvariance, PTL DEF LoopInv

(* Every byte a peer sent was handled, is kept, or is still to be read.    *)
THEOREM NoByteLost == LoopSpec => []BytesAreAccounted
  BY LoopInvariance, PTL DEF LoopInv

(* A client that is ready and not yet looked at is still connected and     *)
(* still has something to read.                                            *)
THEOREM ReadsAreNotWasted == LoopSpec => []ReadinessHolds
  BY LoopInvariance, PTL DEF LoopInv

(* A scan looks at every ready client, and at no client twice.             *)
THEOREM FairScan == LoopSpec => []ScanIsFair
  <1>1. ASSUME LoopInv PROVE ScanIsFair
    <2> USE <1>1 DEF LoopInv
    <2>1. phase = "scan" => From(i) \cap scanned = {} /\ ready \subseteq scanned \cup From(i)
        BY DEF Pending
    <2>2. i > Len(clients) => From(i) = {}
        BY ArrayTyped, Scalars DEF From
    <2>3. i <= Len(clients) => FdAt(i) \in From(i)
        BY ArrayTyped, Scalars DEF From
    <2>4. QED
        BY <2>1, <2>2, <2>3 DEF ScanIsFair, AtClient
  <1>2. QED
      BY <1>1, LoopInvariance, PTL

-----------------------------------------------------------------------------
(* A client and its person. *)

State ==
  [screen : {"login", "signup", "in"},
   name : Names \cup {Empty}, pass : Passwords \cup {Empty},
   note : {"none", "required", "waiting", "refused", "welcome", "out", "elsewhere"},
   count : Nat, current : Nat, own : Names \cup {Empty}]

(* A client outside the login bears no name.                               *)
Nameless(s) == s.screen # "in" => s.own = Empty

(* The notice that somebody else has logged in to the account. *)
Notice(p) == p.act = "logout" /\ p.code = "ok"

-----------------------------------------------------------------------------
(* The readings of a client. *)

(* A set of numbers has a least.                                           *)
LEMMA HasLeast ==
  ASSUME NEW T \in SUBSET Nat, T # {}
  PROVE  \E n \in T : \A m \in T : n <= m
  <1> DEFINE Below == {0 .. n : n \in T}
  <1>1. Below \subseteq FiniteSubsetsOf(Nat) /\ Below # {}
    <2>1. \A n \in T : 0 .. n \subseteq Nat /\ IsFiniteSet(0 .. n)
        BY FS_Interval
    <2>2. QED
        BY <2>1 DEF FiniteSubsetsOf
  <1>2. IsWellFoundedOn(StrictSubsetOrdering(Nat), FiniteSubsetsOf(Nat))
      BY FS_StrictSubsetOrderingWellFounded
  <1> HIDE DEF Below
  <1>3. PICK B \in Below : \A C \in Below : <<C, B>> \notin StrictSubsetOrdering(Nat)
      BY <1>1, <1>2, WFMin
  <1>4. PICK n \in T : B = 0 .. n
      BY DEF Below
  <1>5. ASSUME NEW m \in T, m < n
        PROVE  FALSE
    <2>1. 0 .. m \in Below
        BY DEF Below
    <2>2. 0 .. m \subseteq B /\ n \in B /\ n \notin 0 .. m
        BY <1>4, <1>5
    <2>3. <<0 .. m, B>> \in StrictSubsetOrdering(Nat)
        BY <1>4, <2>2 DEF StrictSubsetOrdering
    <2>4. QED
        BY <1>3, <2>1, <2>3
  <1>6. QED
      BY <1>5

(* f holds the readings from s on of the first n answers of d.             *)
Reads(f, s, d, n) ==
  f = [j \in 0 .. n |-> IF j = 0 THEN s ELSE HandleAuthResponse(f[j - 1], d[j])]

(* What holds at 0 and is handed on up to n holds up to n.                 *)
LEMMA Onwards ==
  ASSUME NEW n \in Nat, NEW G, 0 \in G, \A j \in 1 .. n : j - 1 \in G => j \in G
  PROVE  0 .. n \subseteq G
  <1> DEFINE Bad == {j \in 0 .. n : j \notin G}
  <1>1. SUFFICES ASSUME Bad # {} PROVE FALSE
      OBVIOUS
  <1>2. PICK m \in Bad : \A k \in Bad : m <= k
    <2>1. Bad \in SUBSET Nat
        OBVIOUS
    <2> HIDE DEF Bad
    <2>2. QED
        BY <1>1, <2>1, HasLeast
  <1>3. m \in 1 .. n /\ m \notin G
      BY <1>2
  <1>4. m - 1 \in 0 .. n /\ ~(m <= m - 1)
      BY <1>3
  <1>5. m - 1 \in G
      BY <1>2, <1>4
  <1>6. QED
      BY <1>3, <1>5

(* Answers can be read one after the other.                                *)
LEMMA ReadsExist ==
  ASSUME NEW s, NEW d, NEW n \in Nat
  PROVE  \E f : Reads(f, s, d, n)
  <1> DEFINE G == {m \in 0 .. n : \E f : Reads(f, s, d, m)}
  <1>1. 0 \in G
    <2>1. Reads([j \in 0 .. 0 |-> s], s, d, 0)
        BY DEF Reads
    <2>2. QED
        BY <2>1
  <1>2. ASSUME NEW m \in 1 .. n, m - 1 \in G
        PROVE  m \in G
    <2>1. PICK f : Reads(f, s, d, m - 1)
        BY <1>2
    <2> DEFINE g == [j \in 0 .. m |-> IF j = m THEN HandleAuthResponse(f[m - 1], d[m]) ELSE f[j]]
    <2>2. \A j \in 0 .. m - 1 : g[j] = f[j]
        OBVIOUS
    <2>3. \A j \in 0 .. m - 1 : f[j] = IF j = 0 THEN s ELSE HandleAuthResponse(f[j - 1], d[j])
        BY <2>1 DEF Reads
    <2>4. ASSUME NEW j \in 0 .. m
          PROVE  g[j] = IF j = 0 THEN s ELSE HandleAuthResponse(g[j - 1], d[j])
      <3>1. CASE j = m
          BY <2>2, <3>1
      <3>2. CASE j # m
        <4>1. j \in 0 .. m - 1 /\ (j # 0 => j - 1 \in 0 .. m - 1)
            BY <3>2
        <4>2. QED
            BY <2>2, <2>3, <4>1
      <3>3. QED
          BY <3>1, <3>2
    <2>5. Reads(g, s, d, m)
      <3>1. g = [j \in 0 .. m |-> g[j]]
          OBVIOUS
      <3> HIDE DEF g
      <3>2. QED
          BY <2>4, <3>1 DEF Reads
    <2>6. QED
        BY <2>5
  <1> HIDE DEF G
  <1>3. 0 .. n \subseteq G
      BY <1>1, <1>2, Onwards
  <1>4. QED
      BY <1>3 DEF G

(* Readings, by recursion.                                                 *)
LEMMA ReadingsAre ==
  ASSUME NEW s, NEW d, Len(d) \in Nat
  PROVE  /\ Readings(s, d)[0] = s
         /\ \A j \in 1 .. Len(d) :
              Readings(s, d)[j] = HandleAuthResponse(Readings(s, d)[j - 1], d[j])
  <1>1. Readings(s, d) = CHOOSE f : Reads(f, s, d, Len(d))
      BY DEF Readings, Reads
  <1>2. Reads(Readings(s, d), s, d, Len(d))
      BY <1>1, ReadsExist
  <1> HIDE DEF Readings
  <1>3. \A j \in 0 .. Len(d) :
          Readings(s, d)[j] = IF j = 0 THEN s ELSE HandleAuthResponse(Readings(s, d)[j - 1], d[j])
      BY <1>2 DEF Reads
  <1>4. 0 \in 0 .. Len(d) /\ \A j \in 1 .. Len(d) : j \in 0 .. Len(d) /\ j # 0
      OBVIOUS
  <1>5. QED
      BY <1>3, <1>4

(* What one answer does to the client.                                     *)
LEMMA OneAnswer ==
  ASSUME NEW s \in State, NEW p \in Answers
  PROVE  /\ HandleAuthResponse(s, p) \in State
         /\ p.act = "logout" =>
              /\ HandleAuthResponse(s, p).screen = "login"
              /\ HandleAuthResponse(s, p).own = Empty
              /\ HandleAuthResponse(s, p).note = IF p.code = "done" THEN "out" ELSE "elsewhere"
         /\ p.act # "logout" /\ p.code = "ok" =>
              /\ HandleAuthResponse(s, p).screen = "in"
              /\ HandleAuthResponse(s, p).own = s.name
              /\ HandleAuthResponse(s, p).note = "welcome"
         /\ p.act # "logout" /\ p.code # "ok" =>
              /\ HandleAuthResponse(s, p).screen = s.screen
              /\ HandleAuthResponse(s, p).own = s.own
              /\ HandleAuthResponse(s, p).note = "refused"
  <1>1. p.act \in {"login", "register", "logout"} /\ p.code \in {"ok", "bad", "done"}
      BY DEF Answers
  <1>2. CASE p.act = "logout"
      BY <1>2 DEF HandleAuthResponse, State
  <1>3. CASE p.act # "logout" /\ p.code = "ok"
    <2>1. HandleAuthResponse(s, p) =
            [s EXCEPT !.count = s.count + 1, !.current = s.count + 1, !.own = s.name,
                      !.screen = "in", !.name = Empty, !.pass = Empty, !.note = "welcome"]
        BY <1>1, <1>3 DEF HandleAuthResponse
    <2>2. s.count + 1 \in Nat
        BY DEF State
    <2>3. HandleAuthResponse(s, p) \in State
        BY <2>1, <2>2 DEF State
    <2>4. QED
        BY <1>3, <2>1, <2>3 DEF State
  <1>4. CASE p.act # "logout" /\ p.code # "ok"
      BY <1>1, <1>4 DEF HandleAuthResponse, State
  <1>5. QED
      BY <1>2, <1>3, <1>4

(* The states a client passes through are states of a client, and outside  *)
(* the login it bears no name if it bears none at the start.               *)
LEMMA ReadingsTyped ==
  ASSUME NEW s \in State, NEW d \in Seq(Answers)
  PROVE  \A j \in 0 .. Len(d) :
           /\ Readings(s, d)[j] \in State
           /\ Nameless(s) => Nameless(Readings(s, d)[j])
  <1> DEFINE R == Readings(s, d)
             G == {j \in 0 .. Len(d) : R[j] \in State /\ (Nameless(s) => Nameless(R[j]))}
  <1>1. Len(d) \in Nat
      OBVIOUS
  <1>2. R[0] = s /\ \A j \in 1 .. Len(d) : R[j] = HandleAuthResponse(R[j - 1], d[j])
      BY <1>1, ReadingsAre
  <1> HIDE DEF R
  <1>3. 0 \in G
      BY <1>1, <1>2
  <1>4. ASSUME NEW j \in 1 .. Len(d), j - 1 \in G
        PROVE  j \in G
    <2>1. R[j - 1] \in State /\ (Nameless(s) => Nameless(R[j - 1])) /\ d[j] \in Answers
        BY <1>4
    <2>2. R[j] = HandleAuthResponse(R[j - 1], d[j])
        BY <1>2
    <2>3. R[j] \in State /\ (Nameless(R[j - 1]) => Nameless(R[j]))
      <3>1. R[j] \in State
          BY <2>1, <2>2, OneAnswer
      <3>2. CASE d[j].act = "logout"
        <4>1. R[j].own = Empty
            BY <2>1, <2>2, <3>2, OneAnswer
        <4>2. QED
            BY <3>1, <4>1 DEF Nameless
      <3>3. CASE d[j].act # "logout" /\ d[j].code = "ok"
        <4>1. R[j].screen = "in"
            BY <2>1, <2>2, <3>3, OneAnswer
        <4>2. QED
            BY <3>1, <4>1 DEF Nameless
      <3>4. CASE d[j].act # "logout" /\ d[j].code # "ok"
        <4>1. R[j].screen = R[j - 1].screen /\ R[j].own = R[j - 1].own
            BY <2>1, <2>2, <3>4, OneAnswer
        <4>2. QED
            BY <3>1, <4>1 DEF Nameless
      <3>5. QED
          BY <3>2, <3>3, <3>4
    <2>4. QED
        BY <2>1, <2>3
  <1> HIDE DEF G
  <1>5. 0 .. Len(d) \subseteq G
      BY <1>1, <1>3, <1>4, Onwards
  <1>6. QED
      BY <1>5 DEF G, R

(* Two clients that are both behind the login or both outside it remain so *)
(* while they read the same answers.                                       *)
LEMMA SameScreens ==
  ASSUME NEW s \in State, NEW t \in State, NEW d \in Seq(Answers),
         s.screen = "in" <=> t.screen = "in"
  PROVE  \A j \in 0 .. Len(d) :
           Readings(s, d)[j].screen = "in" <=> Readings(t, d)[j].screen = "in"
  <1> DEFINE R == Readings(s, d)
             Q == Readings(t, d)
             G == {j \in 0 .. Len(d) : R[j].screen = "in" <=> Q[j].screen = "in"}
  <1>1. Len(d) \in Nat
      OBVIOUS
  <1>2. R[0] = s /\ \A j \in 1 .. Len(d) : R[j] = HandleAuthResponse(R[j - 1], d[j])
      BY <1>1, ReadingsAre
  <1>3. Q[0] = t /\ \A j \in 1 .. Len(d) : Q[j] = HandleAuthResponse(Q[j - 1], d[j])
      BY <1>1, ReadingsAre
  <1>4. \A j \in 0 .. Len(d) : R[j] \in State /\ Q[j] \in State
      BY ReadingsTyped
  <1> HIDE DEF R, Q
  <1>5. 0 \in G
      BY <1>1, <1>2, <1>3
  <1>6. ASSUME NEW j \in 1 .. Len(d), j - 1 \in G
        PROVE  j \in G
    <2>1. j - 1 \in 0 .. Len(d) /\ j \in 0 .. Len(d) /\ d[j] \in Answers
        BY <1>1
    <2>2. R[j - 1] \in State /\ Q[j - 1] \in State
        BY <1>4, <2>1
    <2>3. R[j] = HandleAuthResponse(R[j - 1], d[j]) /\ Q[j] = HandleAuthResponse(Q[j - 1], d[j])
        BY <1>2, <1>3
    <2>4. R[j - 1].screen = "in" <=> Q[j - 1].screen = "in"
        BY <1>6
    <2>5. CASE d[j].act = "logout"
        BY <2>1, <2>2, <2>3, <2>5, OneAnswer
    <2>6. CASE d[j].act # "logout" /\ d[j].code = "ok"
      <3>1. R[j].screen = "in"
          BY <2>1, <2>2, <2>3, <2>6, OneAnswer
      <3>2. Q[j].screen = "in"
          BY <2>1, <2>2, <2>3, <2>6, OneAnswer
      <3>3. QED
          BY <2>1, <3>1, <3>2
    <2>7. CASE d[j].act # "logout" /\ d[j].code # "ok"
      <3>1. R[j].screen = R[j - 1].screen
          BY <2>1, <2>2, <2>3, <2>7, OneAnswer
      <3>2. Q[j].screen = Q[j - 1].screen
          BY <2>1, <2>2, <2>3, <2>7, OneAnswer
      <3>3. QED
          BY <2>1, <2>4, <3>1, <3>2
    <2>8. QED
        BY <2>1, <2>5, <2>6, <2>7
  <1> HIDE DEF G
  <1>7. 0 .. Len(d) \subseteq G
      BY <1>1, <1>5, <1>6, Onwards
  <1>8. QED
      BY <1>7 DEF G, R, Q

(* An answer that is added at the end is read at the end.                  *)
LEMMA ReadingsAppend ==
  ASSUME NEW s \in State, NEW d \in Seq(Answers), NEW p \in Answers
  PROVE  /\ \A j \in 0 .. Len(d) : Readings(s, Append(d, p))[j] = Readings(s, d)[j]
         /\ Readings(s, Append(d, p))[Len(d) + 1] = HandleAuthResponse(Readings(s, d)[Len(d)], p)
  <1> DEFINE e == Append(d, p)
             R == Readings(s, d)
             Q == Readings(s, e)
             G == {j \in 0 .. Len(d) : Q[j] = R[j]}
  <1>1. /\ Len(d) \in Nat /\ Len(e) = Len(d) + 1 /\ e[Len(d) + 1] = p
        /\ \A j \in 1 .. Len(d) : e[j] = d[j]
      OBVIOUS
  <1> HIDE DEF e
  <1>2. R[0] = s /\ \A j \in 1 .. Len(d) : R[j] = HandleAuthResponse(R[j - 1], d[j])
      BY <1>1, ReadingsAre
  <1>3. Q[0] = s /\ \A j \in 1 .. Len(d) + 1 : Q[j] = HandleAuthResponse(Q[j - 1], e[j])
    <2>1. Len(e) \in Nat
        BY <1>1
    <2>2. Q[0] = s /\ \A j \in 1 .. Len(e) : Q[j] = HandleAuthResponse(Q[j - 1], e[j])
        BY <2>1, ReadingsAre
    <2>3. QED
        BY <1>1, <2>2
  <1> HIDE DEF R, Q
  <1>4. 0 \in G
      BY <1>1, <1>2, <1>3
  <1>5. ASSUME NEW j \in 1 .. Len(d), j - 1 \in G
        PROVE  j \in G
    <2>1. j \in 0 .. Len(d) /\ j \in 1 .. Len(d) + 1 /\ Q[j - 1] = R[j - 1]
        BY <1>1, <1>5
    <2>2. Q[j] = R[j]
        BY <1>1, <1>2, <1>3, <2>1
    <2>3. QED
        BY <2>1, <2>2
  <1> HIDE DEF G
  <1>6. 0 .. Len(d) \subseteq G
      BY <1>1, <1>4, <1>5, Onwards
  <1>7. \A j \in 0 .. Len(d) : Q[j] = R[j]
      BY <1>6 DEF G
  <1>8. Q[Len(d) + 1] = HandleAuthResponse(R[Len(d)], p)
    <2>1. Len(d) + 1 \in 1 .. Len(d) + 1 /\ Len(d) \in 0 .. Len(d) /\ Len(d) + 1 - 1 = Len(d)
        BY <1>1
    <2>2. Q[Len(d) + 1] = HandleAuthResponse(Q[Len(d)], e[Len(d) + 1])
        BY <1>3, <2>1
    <2>3. QED
        BY <1>1, <1>7, <2>1, <2>2
  <1>9. QED
      BY <1>7, <1>8 DEF e, Q, R

(* A client that has read the first answer has the rest before it.         *)
LEMMA ReadingsTail ==
  ASSUME NEW s \in State, NEW d \in Seq(Answers), d # <<>>
  PROVE  \A j \in 0 .. Len(d) - 1 :
           Readings(HandleAuthResponse(s, Head(d)), Tail(d))[j] = Readings(s, d)[j + 1]
  <1> DEFINE e == Tail(d)
             t == HandleAuthResponse(s, Head(d))
             R == Readings(s, d)
             Q == Readings(t, e)
             G == {j \in 0 .. Len(d) - 1 : Q[j] = R[j + 1]}
  <1>1. /\ Len(d) \in Nat \ {0} /\ Len(e) = Len(d) - 1 /\ Head(d) = d[1]
        /\ \A j \in 1 .. Len(d) - 1 : e[j] = d[j + 1]
      OBVIOUS
  <1> HIDE DEF e
  <1>2. R[0] = s /\ \A j \in 1 .. Len(d) : R[j] = HandleAuthResponse(R[j - 1], d[j])
      BY <1>1, ReadingsAre
  <1>3. Q[0] = t /\ \A j \in 1 .. Len(d) - 1 : Q[j] = HandleAuthResponse(Q[j - 1], e[j])
    <2>1. Len(e) \in Nat
        BY <1>1
    <2> HIDE DEF t
    <2>2. Q[0] = t /\ \A j \in 1 .. Len(e) : Q[j] = HandleAuthResponse(Q[j - 1], e[j])
        BY <2>1, ReadingsAre
    <2>3. QED
        BY <1>1, <2>2
  <1> HIDE DEF R, Q
  <1>4. 0 \in G
    <2>1. 1 \in 1 .. Len(d) /\ 1 - 1 = 0 /\ 0 + 1 = 1 /\ 0 \in 0 .. Len(d) - 1
        BY <1>1
    <2>2. R[1] = HandleAuthResponse(R[0], d[1])
        BY <1>2, <2>1
    <2>3. QED
        BY <1>1, <1>2, <1>3, <2>1, <2>2
  <1>5. ASSUME NEW j \in 1 .. Len(d) - 1, j - 1 \in G
        PROVE  j \in G
    <2>1. j \in 0 .. Len(d) - 1 /\ j + 1 \in 1 .. Len(d) /\ j - 1 + 1 = j /\ j + 1 - 1 = j
        BY <1>1
    <2>2. Q[j - 1] = R[j]
        BY <1>5, <2>1
    <2>3. Q[j] = HandleAuthResponse(Q[j - 1], e[j]) /\ e[j] = d[j + 1]
        BY <1>1, <1>3
    <2>4. R[j + 1] = HandleAuthResponse(R[j], d[j + 1])
        BY <1>2, <2>1
    <2>5. QED
        BY <2>1, <2>2, <2>3, <2>4
  <1> HIDE DEF G
  <1>6. Len(d) - 1 \in Nat
      BY <1>1
  <1>7. 0 .. Len(d) - 1 \subseteq G
      BY <1>4, <1>5, <1>6, Onwards
  <1>8. QED
      BY <1>7 DEF G, R, Q, t, e

-----------------------------------------------------------------------------
(* The inductive invariant, of one terminal: link k, account a, requests u, *)
(* answers d, client s, calm q and taken t.                                 *)

LastState(s, d) == Readings(s, d)[Len(d)]

(* A connection that is not there carries nothing and is in no account.    *)
Idle(k, a, u, d, s) ==
  /\ k \in {"off", "left"} => d = <<>> /\ s = Fresh
  /\ k \in {"off", "cut", "dead"} => a = Empty /\ u = <<>>

ScreenFollows(a, d, s) == LastState(s, d).screen = "in" <=> a # Empty

(* A notice finds the client behind the login.                             *)
NoticesEnd(d, s) ==
  \A k \in 1 .. Len(d) : Notice(d[k]) => Readings(s, d)[k - 1].screen = "in"

Promised(u, d, s) ==
  s.note = "waiting" => \/ \E k \in DOMAIN u : u[k].act # "logout"
                        \/ \E k \in DOMAIN d : d[k].act # "logout"

(* What is known of a person who waits for each answer before the next key. *)
OneAtATime(a, u, d, s, t) ==
  /\ Len(u) <= 1
  /\ u # <<>> /\ Head(u).act # "logout" =>
       d = <<>> /\ s.screen # "in" /\ s.note = "waiting" /\ s.name = Head(u).name
  /\ u # <<>> /\ Head(u).act = "logout" /\ a = Empty => t
  /\ LastState(s, d).own = a
  /\ \A k \in 0 .. Len(d) : Readings(s, d)[k].note = "elsewhere" => t

Sound(k, a, u, d, s, q, t) ==
  /\ Idle(k, a, u, d, s)
  /\ Nameless(s)
  /\ k = "open" =>
       /\ ScreenFollows(a, d, s)
       /\ NoticesEnd(d, s)
       /\ Promised(u, d, s)
       /\ q => OneAtATime(a, u, d, s, t)

-----------------------------------------------------------------------------
(* What becomes of a terminal. *)

(* With nothing to read the client is as it will be.                       *)
LEMMA NothingToRead ==
  ASSUME NEW s, NEW d, Len(d) = 0
  PROVE  LastState(s, d) = s /\ Readings(s, d)[0] = s
  <1>1. Len(d) \in Nat
      OBVIOUS
  <1>2. Readings(s, d)[0] = s
      BY <1>1, ReadingsAre
  <1>3. QED
      BY <1>2 DEF LastState

(* The only thing that comes unasked is one notice, to a client behind the *)
(* login.                                                                  *)
LEMMA Unasked ==
  ASSUME NEW s \in State, NEW d \in Seq(Answers), NoticesEnd(d, s),
         \A k \in DOMAIN d : Notice(d[k])
  PROVE  \/ Len(d) = 0
         \/ /\ s.screen = "in" /\ Len(d) = 1 /\ LastState(s, d).note = "elsewhere"
            /\ LastState(s, d).screen # "in" /\ LastState(s, d).own = Empty
  <1>1. Len(d) \in Nat /\ DOMAIN d = 1 .. Len(d)
      OBVIOUS
  <1>2. SUFFICES ASSUME Len(d) # 0
                 PROVE  /\ s.screen = "in" /\ Len(d) = 1 /\ LastState(s, d).note = "elsewhere"
                        /\ LastState(s, d).screen # "in" /\ LastState(s, d).own = Empty
      OBVIOUS
  <1>3. 1 \in 1 .. Len(d) /\ 1 - 1 = 0 /\ 2 - 1 = 1
      BY <1>1, <1>2
  <1>4. Notice(d[1]) /\ d[1] \in Answers
      BY <1>1, <1>3
  <1>5. Readings(s, d)[0] = s /\ Readings(s, d)[1] = HandleAuthResponse(s, d[1])
      BY <1>1, <1>3, ReadingsAre
  <1>6. s.screen = "in"
      BY <1>3, <1>4, <1>5 DEF NoticesEnd
  <1>7. /\ Readings(s, d)[1].note = "elsewhere" /\ Readings(s, d)[1].screen = "login"
        /\ Readings(s, d)[1].own = Empty
      BY <1>4, <1>5, OneAnswer DEF Notice
  <1>8. Len(d) = 1
    <2>1. SUFFICES ASSUME Len(d) # 1 PROVE FALSE
        OBVIOUS
    <2>2. 2 \in 1 .. Len(d)
        BY <1>1, <1>2, <2>1
    <2>3. Notice(d[2])
        BY <1>1, <2>2
    <2>4. Readings(s, d)[1].screen = "in"
        BY <1>3, <2>2, <2>3 DEF NoticesEnd
    <2>5. QED
        BY <1>7, <2>4
  <1>9. QED
      BY <1>6, <1>7, <1>8 DEF LastState

(* A key on a form, with the request it sends, if any.                     *)
LEMMA KeyOnForm ==
  ASSUME NEW k, NEW a, NEW u \in Seq(Requests), NEW v \in Seq(Requests), NEW d \in Seq(Answers),
         NEW s \in State, NEW z \in State, NEW q \in BOOLEAN, NEW r \in BOOLEAN, NEW t \in BOOLEAN,
         Sound(k, a, u, d, s, q, t), k \in {"open", "cut", "dead"},
         s.screen # "in", z.screen # "in", z.own = s.own, z.note # "elsewhere",
         \/ v = u /\ (z.note # "waiting" \/ k # "open")
         \/ /\ k = "open" /\ z.note = "waiting"
            /\ \E p \in Requests : p.act # "logout" /\ p.name = z.name /\ v = Append(u, p),
         r => u = <<>> /\ \A j \in DOMAIN d : Notice(d[j])
  PROVE  Sound(k, a, v, d, z, r, t)
  <1>1. Idle(k, a, v, d, z) /\ Nameless(z)
      BY DEF Sound, Idle, Nameless
  <1>2. SUFFICES ASSUME k = "open"
                 PROVE  /\ ScreenFollows(a, d, z) /\ NoticesEnd(d, z) /\ Promised(v, d, z)
                        /\ r => OneAtATime(a, v, d, z, t)
      BY <1>1 DEF Sound
  <1>3. ScreenFollows(a, d, s) /\ NoticesEnd(d, s) /\ Nameless(s)
      BY <1>2 DEF Sound
  <1>4. Len(d) \in Nat /\ \A j \in 1 .. Len(d) : j - 1 \in 0 .. Len(d)
      OBVIOUS
  <1>5. \A j \in 0 .. Len(d) : Readings(s, d)[j].screen = "in" <=> Readings(z, d)[j].screen = "in"
      BY SameScreens
  <1>6. ScreenFollows(a, d, z)
      BY <1>3, <1>4, <1>5 DEF ScreenFollows, LastState
  <1>7. NoticesEnd(d, z)
      BY <1>3, <1>4, <1>5 DEF NoticesEnd
  <1>8. Promised(v, d, z)
    <2>1. SUFFICES ASSUME z.note = "waiting" PROVE \E j \in DOMAIN v : v[j].act # "logout"
        BY DEF Promised
    <2>2. PICK p \in Requests : p.act # "logout" /\ v = Append(u, p)
        BY <1>2, <2>1
    <2>3. Len(u) + 1 \in DOMAIN v /\ v[Len(u) + 1] = p
        BY <2>2
    <2>4. QED
        BY <2>2, <2>3
  <1>9. ASSUME r
        PROVE  OneAtATime(a, v, d, z, t)
    <2>1. Len(d) = 0
        BY <1>3, <1>9, Unasked
    <2>2. d = <<>>
        BY <2>1
    <2>3. LastState(z, d) = z /\ Readings(z, d)[0] = z
        BY <2>1, NothingToRead
    <2>4. a = Empty /\ z.own = Empty
        BY <1>1, <1>6, <2>3 DEF ScreenFollows, Nameless
    <2>5. \A j \in 0 .. Len(d) : Readings(z, d)[j].note = "elsewhere" => t
        BY <2>1, <2>3
    <2>6. CASE v = u
        BY <1>9, <2>3, <2>4, <2>5, <2>6 DEF OneAtATime
    <2>7. CASE v # u
      <3>1. PICK p \in Requests : p.act # "logout" /\ p.name = z.name /\ v = Append(u, p)
          BY <2>7
      <3>2. z.note = "waiting"
          BY <2>7
      <3>3. Len(v) = 1 /\ Head(v) = p
          BY <1>9, <3>1
      <3>4. QED
          BY <2>2, <2>3, <2>4, <2>5, <3>1, <3>2, <3>3 DEF OneAtATime
    <2>8. QED
        BY <2>6, <2>7
  <1>10. QED
      BY <1>6, <1>7, <1>8, <1>9

(* ESC behind the login: the requests are v then, and r says whether each  *)
(* key has waited for its answer.                                          *)
Escaped(k, u, d, s, q, v, r) ==
  /\ k \in {"open", "cut", "dead"} /\ s.screen = "in"
  /\ v = IF k = "open" THEN Append(u, [act |-> "logout"]) ELSE u
  /\ r => q /\ u = <<>> /\ \A j \in DOMAIN d : Notice(d[j])

(* A terminal remains sound when ESC is pressed.                           *)
LEMMA KeyInside ==
  ASSUME NEW k, NEW a, NEW u \in Seq(Requests), NEW v \in Seq(Requests), NEW d \in Seq(Answers),
         NEW s \in State, NEW q \in BOOLEAN, NEW r \in BOOLEAN, NEW t \in BOOLEAN,
         Sound(k, a, u, d, s, q, t), Escaped(k, u, d, s, q, v, r)
  PROVE  Sound(k, a, v, d, s, r, t)
  <1>0. /\ k \in {"open", "cut", "dead"} /\ s.screen = "in"
        /\ v = IF k = "open" THEN Append(u, [act |-> "logout"]) ELSE u
        /\ r => q /\ u = <<>> /\ \A j \in DOMAIN d : Notice(d[j])
      BY DEF Escaped
  <1>1. Idle(k, a, v, d, s) /\ Nameless(s)
      BY <1>0 DEF Sound, Idle
  <1>2. SUFFICES ASSUME k = "open"
                 PROVE  Promised(v, d, s) /\ (r => OneAtATime(a, v, d, s, t))
      BY <1>1 DEF Sound
  <1>3. ScreenFollows(a, d, s) /\ NoticesEnd(d, s) /\ Promised(u, d, s)
      BY <1>2 DEF Sound
  <1>4. v = Append(u, [act |-> "logout"]) /\ [act |-> "logout"] \in Requests
      BY <1>0, <1>2 DEF Requests
  <1>5. Promised(v, d, s)
    <2>1. \A j \in DOMAIN u : j \in DOMAIN v /\ v[j] = u[j]
        BY <1>4
    <2>2. QED
        BY <1>3, <2>1 DEF Promised
  <1>6. ASSUME r
        PROVE  OneAtATime(a, v, d, s, t)
    <2>1. OneAtATime(a, u, d, s, t)
        BY <1>0, <1>2, <1>6 DEF Sound
    <2>2. Len(v) = 1 /\ Head(v).act = "logout"
      <3>1. Len(v) = 1 /\ v[1] = [act |-> "logout"]
        <4>1. Len(u) = 0
            BY <1>0, <1>6
        <4>2. QED
            BY <1>4, <4>1
      <3>2. Head(v) = v[1] /\ [act |-> "logout"].act = "logout"
          OBVIOUS
      <3>3. QED
          BY <3>1, <3>2
    <2>3. a = Empty => t
      <3>1. SUFFICES ASSUME a = Empty PROVE t
          OBVIOUS
      <3>2. LastState(s, d).screen # "in"
          BY <1>3, <3>1 DEF ScreenFollows
      <3>3. Len(d) # 0
          BY <1>0, <3>2, NothingToRead
      <3>4. LastState(s, d).note = "elsewhere"
          BY <1>0, <1>3, <1>6, <3>3, Unasked
      <3>5. Len(d) \in 0 .. Len(d)
          OBVIOUS
      <3>6. QED
          BY <2>1, <3>4, <3>5 DEF OneAtATime, LastState
    <2>4. QED
        BY <2>1, <2>2, <2>3 DEF OneAtATime
  <1>7. QED
      BY <1>5, <1>6

(* The server's answer p to the first request: the connection is in the    *)
(* account b then, e is on the way, and w says whether it was taken over.  *)
Replied(k, a, u, d, t, p, b, e, w) ==
  /\ k \in {"open", "left"} /\ u # <<>>
  /\ e = IF k = "open" THEN Append(d, p) ELSE d
  /\ \/ /\ Head(u).act # "logout" /\ p.act # "logout" /\ p.code = "ok"
        /\ b = Head(u).name /\ b # Empty /\ ~w
     \/ Head(u).act # "logout" /\ p.act # "logout" /\ p.code # "ok" /\ b = a /\ w = t
     \/ /\ Head(u).act = "logout" /\ p.act = "logout"
        /\ p.code = (IF a = Empty THEN "bad" ELSE "done") /\ b = Empty /\ w = t

(* A terminal remains sound when its request is answered.                  *)
LEMMA Answered ==
  ASSUME NEW k, NEW a, NEW u \in Seq(Requests), NEW d \in Seq(Answers),
         NEW e, NEW s \in State, NEW q \in BOOLEAN, NEW t \in BOOLEAN,
         NEW b, NEW w \in BOOLEAN, NEW p \in Answers,
         Sound(k, a, u, d, s, q, t), Replied(k, a, u, d, t, p, b, e, w)
  PROVE  Sound(k, b, Tail(u), e, s, q, w)
  <1> USE DEF Replied
  <1>1. Idle(k, b, Tail(u), e, s) /\ Nameless(s)
      BY DEF Sound, Idle
  <1>2. SUFFICES ASSUME k = "open"
                 PROVE  /\ ScreenFollows(b, e, s) /\ NoticesEnd(e, s) /\ Promised(Tail(u), e, s)
                        /\ q => OneAtATime(b, Tail(u), e, s, w)
      BY <1>1 DEF Sound
  <1>3. ScreenFollows(a, d, s) /\ NoticesEnd(d, s) /\ Promised(u, d, s)
      BY <1>2 DEF Sound
  <1>4. e = Append(d, p)
      BY <1>2
  <1>5. /\ Len(d) \in Nat /\ Len(e) = Len(d) + 1 /\ e[Len(d) + 1] = p
        /\ DOMAIN d = 1 .. Len(d) /\ DOMAIN e = 1 .. Len(d) + 1
        /\ \A j \in 1 .. Len(d) : e[j] = d[j]
      BY <1>4
  <1>6. \A j \in 0 .. Len(d) : Readings(s, e)[j] = Readings(s, d)[j]
      BY <1>4, ReadingsAppend
  <1>7. LastState(s, e) = HandleAuthResponse(LastState(s, d), p)
      BY <1>4, <1>5, ReadingsAppend DEF LastState
  <1>8. LastState(s, d) \in State /\ Readings(s, e)[Len(d) + 1] = LastState(s, e)
      BY <1>5, ReadingsTyped DEF LastState
  <1>9. ~Notice(p)
      BY DEF Notice
  <1>10. ScreenFollows(b, e, s)
      BY <1>3, <1>7, <1>8, OneAnswer DEF ScreenFollows
  <1>11. NoticesEnd(e, s)
    <2>1. SUFFICES ASSUME NEW j \in 1 .. Len(e), Notice(e[j])
                   PROVE  Readings(s, e)[j - 1].screen = "in"
        BY DEF NoticesEnd
    <2>2. j \in 1 .. Len(d) /\ j - 1 \in 0 .. Len(d)
        BY <1>5, <1>9, <2>1
    <2>3. QED
        BY <1>3, <1>5, <1>6, <2>1, <2>2 DEF NoticesEnd
  <1>12. Promised(Tail(u), e, s)
    <2>1. SUFFICES ASSUME s.note = "waiting"
                   PROVE  \/ \E j \in DOMAIN Tail(u) : Tail(u)[j].act # "logout"
                          \/ \E j \in DOMAIN e : e[j].act # "logout"
        BY DEF Promised
    <2>2. CASE \E j \in DOMAIN d : d[j].act # "logout"
      <3>1. PICK j \in DOMAIN d : d[j].act # "logout"
          BY <2>2
      <3>2. j \in DOMAIN e /\ e[j] = d[j]
          BY <1>5
      <3>3. QED
          BY <3>1, <3>2
    <2>3. CASE \E j \in DOMAIN u : u[j].act # "logout"
      <3>1. PICK j \in DOMAIN u : u[j].act # "logout"
          BY <2>3
      <3>2. CASE j = 1
        <4>1. p.act # "logout"
            BY <3>1, <3>2
        <4>2. Len(d) + 1 \in DOMAIN e
            BY <1>5
        <4>3. QED
            BY <1>5, <4>1, <4>2
      <3>3. CASE j # 1
        <4>1. j - 1 \in DOMAIN Tail(u) /\ Tail(u)[j - 1] = u[j]
            BY <3>3
        <4>2. QED
            BY <3>1, <4>1
      <3>4. QED
          BY <3>2, <3>3
    <2>4. QED
        BY <1>3, <2>1, <2>2, <2>3 DEF Promised
  <1>13. ASSUME q
         PROVE  OneAtATime(b, Tail(u), e, s, w)
    <2>1. OneAtATime(a, u, d, s, t)
        BY <1>2, <1>13 DEF Sound
    <2>2. Tail(u) = <<>> /\ Len(Tail(u)) <= 1
      <3>1. Len(u) \in Nat /\ Len(u) # 0 /\ Len(u) <= 1
          BY <2>1 DEF OneAtATime
      <3> DEFINE v == Tail(u)
      <3>2. Len(v) = Len(u) - 1 /\ v \in Seq(Requests)
          OBVIOUS
      <3> HIDE DEF v
      <3>3. Len(v) = 0
          BY <3>1, <3>2
      <3>4. v = <<>>
          BY <3>2, <3>3
      <3>5. Len(v) <= 1
          BY <3>3
      <3>6. QED
          BY <3>4, <3>5, Zenon DEF v
    <2>3. \A j \in 0 .. Len(d) + 1 : j \in 0 .. Len(d) \/ j = Len(d) + 1
        BY <1>5
    <2>4. CASE Head(u).act # "logout"
      <3>1. Len(d) = 0 /\ s.note = "waiting" /\ s.name = Head(u).name
          BY <2>1, <2>4 DEF OneAtATime
      <3>2. LastState(s, d) = s /\ Readings(s, d)[0] = s
          BY <3>1, NothingToRead
      <3>3. LastState(s, e).own = b /\ LastState(s, e).note # "elsewhere"
          BY <1>7, <2>1, <2>4, <3>1, <3>2, OneAnswer DEF OneAtATime
      <3>4. \A j \in 0 .. Len(e) : Readings(s, e)[j].note # "elsewhere"
        <4>1. TAKE j \in 0 .. Len(e)
        <4>2. CASE j \in 0 .. Len(d)
          <5>1. j = 0
              BY <3>1, <4>2
          <5>2. QED
              BY <1>6, <3>1, <3>2, <4>2, <5>1
        <4>3. CASE j = Len(d) + 1
            BY <1>8, <3>3, <4>3
        <4>4. QED
            BY <1>5, <2>3, <4>2, <4>3
      <3>5. QED
          BY <2>2, <3>3, <3>4 DEF OneAtATime
    <2>5. CASE Head(u).act = "logout"
      <3>1. p.act = "logout" /\ p.code = (IF a = Empty THEN "bad" ELSE "done") /\ b = Empty /\ w = t
          BY <2>5
      <3>2. LastState(s, e).own = b /\ (LastState(s, e).note = "elsewhere" => a = Empty)
          BY <1>7, <1>8, <3>1, OneAnswer
      <3>3. a = Empty => t
          BY <2>1, <2>5 DEF OneAtATime
      <3>4. ASSUME NEW j \in 0 .. Len(e), Readings(s, e)[j].note = "elsewhere"
            PROVE  w
        <4>1. CASE j \in 0 .. Len(d)
            BY <1>6, <2>1, <3>1, <3>4, <4>1 DEF OneAtATime
        <4>2. CASE j = Len(d) + 1
            BY <1>8, <3>1, <3>2, <3>3, <3>4, <4>2
        <4>3. QED
            BY <1>5, <2>3, <4>1, <4>2
      <3>5. QED
          BY <2>2, <3>2, <3>4 DEF OneAtATime
    <2>6. QED
        BY <2>4, <2>5
  <1>14. QED
      BY <1>10, <1>11, <1>12, <1>13

(* The account is taken over from a terminal, and the notice p tells it.   *)
Informed(k, a, d, p, e) ==
  /\ k \in {"open", "left"} /\ a # Empty /\ Notice(p)
  /\ e = IF k = "open" THEN Append(d, p) ELSE d

(* A terminal remains sound when its account is taken over.                *)
LEMMA TakenOver ==
  ASSUME NEW k, NEW a, NEW u \in Seq(Requests), NEW d \in Seq(Answers),
         NEW e, NEW s \in State, NEW q \in BOOLEAN, NEW t \in BOOLEAN, NEW p \in Answers,
         Sound(k, a, u, d, s, q, t), Informed(k, a, d, p, e)
  PROVE  Sound(k, Empty, u, e, s, q, TRUE)
  <1> USE DEF Informed
  <1>1. Idle(k, Empty, u, e, s) /\ Nameless(s)
      BY DEF Sound, Idle
  <1>2. SUFFICES ASSUME k = "open"
                 PROVE  /\ ScreenFollows(Empty, e, s) /\ NoticesEnd(e, s) /\ Promised(u, e, s)
                        /\ q => OneAtATime(Empty, u, e, s, TRUE)
      BY <1>1 DEF Sound
  <1>3. ScreenFollows(a, d, s) /\ NoticesEnd(d, s) /\ Promised(u, d, s)
      BY <1>2 DEF Sound
  <1>4. e = Append(d, p)
      BY <1>2
  <1>5. /\ Len(d) \in Nat /\ Len(e) = Len(d) + 1 /\ e[Len(d) + 1] = p
        /\ DOMAIN d = 1 .. Len(d) /\ DOMAIN e = 1 .. Len(d) + 1
        /\ \A j \in 1 .. Len(d) : e[j] = d[j]
      BY <1>4
  <1>6. \A j \in 0 .. Len(d) : Readings(s, e)[j] = Readings(s, d)[j]
      BY <1>4, ReadingsAppend
  <1>7. LastState(s, e) = HandleAuthResponse(LastState(s, d), p)
      BY <1>4, <1>5, ReadingsAppend DEF LastState
  <1>8. LastState(s, d) \in State /\ LastState(s, d).screen = "in"
      BY <1>3, <1>5, ReadingsTyped DEF LastState, ScreenFollows
  <1>9. LastState(s, e).screen # "in" /\ LastState(s, e).own = Empty
      BY <1>7, <1>8, OneAnswer DEF Notice
  <1>10. NoticesEnd(e, s)
    <2>1. SUFFICES ASSUME NEW j \in 1 .. Len(e), Notice(e[j])
                   PROVE  Readings(s, e)[j - 1].screen = "in"
        BY DEF NoticesEnd
    <2>2. CASE j \in 1 .. Len(d)
      <3>1. j - 1 \in 0 .. Len(d)
          BY <1>5, <2>2
      <3>2. QED
          BY <1>3, <1>5, <1>6, <2>1, <2>2, <3>1 DEF NoticesEnd
    <2>3. CASE j = Len(d) + 1
      <3>1. j - 1 = Len(d) /\ Len(d) \in 0 .. Len(d)
          BY <1>5, <2>3
      <3>2. QED
          BY <1>6, <1>8, <3>1 DEF LastState
    <2>4. QED
        BY <1>5, <2>2, <2>3
  <1>11. Promised(u, e, s)
    <2>1. \A j \in DOMAIN d : j \in DOMAIN e /\ e[j] = d[j]
        BY <1>5
    <2>2. QED
        BY <1>3, <2>1 DEF Promised
  <1>12. ASSUME q
         PROVE  OneAtATime(Empty, u, e, s, TRUE)
    <2>1. OneAtATime(a, u, d, s, t)
        BY <1>2, <1>12 DEF Sound
    <2>2. ~(u # <<>> /\ Head(u).act # "logout")
      <3>1. SUFFICES ASSUME u # <<>>, Head(u).act # "logout" PROVE FALSE
          OBVIOUS
      <3>2. Len(d) = 0 /\ s.screen # "in"
          BY <2>1, <3>1 DEF OneAtATime
      <3>3. QED
          BY <1>8, <3>2, NothingToRead
    <2>3. QED
        BY <1>9, <2>1, <2>2 DEF OneAtATime
  <1>13. QED
      BY <1>9, <1>10, <1>11, <1>12 DEF ScreenFollows

(* The client reads the first answer.                                      *)
LEMMA ReadOne ==
  ASSUME NEW k, NEW a, NEW u \in Seq(Requests), NEW d \in Seq(Answers),
         NEW s \in State, NEW q \in BOOLEAN, NEW t \in BOOLEAN,
         Sound(k, a, u, d, s, q, t), k \in {"open", "cut"}, d # <<>>
  PROVE  Sound(k, a, u, Tail(d), HandleAuthResponse(s, Head(d)), q, t)
  <1> DEFINE e == Tail(d)
             z == HandleAuthResponse(s, Head(d))
  <1>1. /\ Len(d) \in Nat /\ Len(e) \in Nat /\ Len(e) = Len(d) - 1 /\ e \in Seq(Answers)
        /\ Head(d) \in Answers /\ DOMAIN e = 1 .. Len(d) - 1
        /\ \A j \in 1 .. Len(d) - 1 : e[j] = d[j + 1]
      OBVIOUS
  <1>2. \A j \in 0 .. Len(d) - 1 : Readings(z, e)[j] = Readings(s, d)[j + 1]
      BY ReadingsTail
  <1>3. z \in State /\ z.note # "waiting"
      BY <1>1, OneAnswer
  <1>4. Nameless(s) => Nameless(z)
      BY <1>1, OneAnswer DEF Nameless
  <1> HIDE DEF e, z
  <1>5. LastState(z, e) = LastState(s, d)
    <2>1. Len(e) \in 0 .. Len(d) - 1 /\ Len(e) + 1 = Len(d)
        BY <1>1
    <2>2. QED
        BY <1>2, <2>1 DEF LastState
  <1>6. Idle(k, a, u, e, z) /\ Nameless(z)
      BY <1>4 DEF Sound, Idle
  <1>7. SUFFICES ASSUME k = "open"
                 PROVE  /\ ScreenFollows(a, e, z) /\ NoticesEnd(e, z) /\ Promised(u, e, z)
                        /\ q => OneAtATime(a, u, e, z, t)
      BY <1>6 DEF Sound, e, z
  <1>8. ScreenFollows(a, d, s) /\ NoticesEnd(d, s)
      BY <1>7 DEF Sound
  <1>9. NoticesEnd(e, z)
    <2>1. SUFFICES ASSUME NEW j \in 1 .. Len(e), Notice(e[j])
                   PROVE  Readings(z, e)[j - 1].screen = "in"
        BY DEF NoticesEnd
    <2>2. j \in 1 .. Len(d) - 1 /\ j - 1 \in 0 .. Len(d) - 1 /\ j - 1 + 1 = j /\ j + 1 - 1 = j
        BY <1>1
    <2>3. j + 1 \in 1 .. Len(d) /\ Notice(d[j + 1])
        BY <1>1, <2>1, <2>2
    <2>4. Readings(s, d)[j].screen = "in"
        BY <1>8, <2>2, <2>3 DEF NoticesEnd
    <2>5. QED
        BY <1>2, <2>2, <2>4
  <1>10. ASSUME q
         PROVE  OneAtATime(a, u, e, z, t)
    <2>1. OneAtATime(a, u, d, s, t)
        BY <1>7, <1>10 DEF Sound
    <2>2. ~(u # <<>> /\ Head(u).act # "logout")
        BY <2>1 DEF OneAtATime
    <2>3. ASSUME NEW j \in 0 .. Len(e), Readings(z, e)[j].note = "elsewhere"
          PROVE  t
      <3>1. j \in 0 .. Len(d) - 1 /\ j + 1 \in 0 .. Len(d)
          BY <1>1
      <3>2. QED
          BY <1>2, <2>1, <2>3, <3>1 DEF OneAtATime
    <2>4. QED
        BY <1>5, <2>1, <2>2, <2>3 DEF OneAtATime
  <1>11. QED
      BY <1>3, <1>5, <1>8, <1>9, <1>10 DEF ScreenFollows, Promised

-----------------------------------------------------------------------------
(* Every step keeps the types. *)

(* The terminal c, by type.                                                *)
LEMMA TerminalTyped ==
  ASSUME TypeOK, NEW c \in Terminals
  PROVE  /\ login[c] \in Names \cup {Empty} /\ link[c] \in Links
         /\ up[c] \in Seq(Requests) /\ down[c] \in Seq(Answers)
         /\ ui[c] \in State /\ calm[c] \in BOOLEAN /\ taken[c] \in BOOLEAN
  <1>1. 0 .. (MaxUsers + 1) \subseteq Nat
      OBVIOUS
  <1>2. ui[c] \in State
      BY <1>1 DEF TypeOK, State
  <1>3. QED
      BY <1>2 DEF TypeOK

(* A client that has not gone past the end of users[], or has just.        *)
UI ==
  [screen : {"login", "signup", "in"},
   name : Names \cup {Empty}, pass : Passwords \cup {Empty},
   note : {"none", "required", "waiting", "refused", "welcome", "out", "elsewhere"},
   count : 0..(MaxUsers + 1), current : 0..(MaxUsers + 1),
   own : Names \cup {Empty}]

(* One client changes.                                                     *)
LEMMA ClientTyped ==
  ASSUME TypeOK, NEW c \in Terminals, NEW z \in UI
  PROVE  ui[c] \in UI /\ [ui EXCEPT ![c] = z] \in [Terminals -> UI]
  BY DEF TypeOK, UI

(* What a request holds.                                                   *)
LEMMA RequestTyped ==
  ASSUME NEW p \in Requests, p.act # "logout"
  PROVE  p.act \in {"login", "register"} /\ p.name \in Names /\ p.pass \in Passwords
  BY DEF Requests

(* Answers may be sent to anybody.                                         *)
LEMMA SentTyped ==
  ASSUME TypeOK, NEW D, NEW p, \A d \in D : p[d] \in Answers
  PROVE  Sent(D, p) \in [Terminals -> Seq(Answers)]
  <1>1. ASSUME NEW d \in Terminals
        PROVE  (IF d \in D /\ link[d] = "open" THEN Append(down[d], p[d]) ELSE down[d]) \in Seq(Answers)
    <2>1. down[d] \in Seq(Answers)
        BY DEF TypeOK
    <2>2. CASE d \in D
      <3>1. p[d] \in Answers
          BY <2>2
      <3>2. QED
          BY <2>1, <3>1
    <2>3. CASE d \notin D
        BY <2>1, <2>3
    <2>4. QED
        BY <2>2, <2>3
  <1>2. QED
      BY <1>1 DEF Sent

(* What an answer's reader goes on with fits the bounds of users[].        *)
LEMMA ReadFits ==
  ASSUME TypeOK, NEW c \in Terminals, ReceiveAuth(c)
  PROVE  TypeOK'
  <1> DEFINE p == Head(down[c])
             h == HandleAuthResponse(ui[c], p)
  <1>1. p \in Answers
      BY DEF TypeOK, ReceiveAuth
  <1>2. ui[c] \in UI /\ ui[c].count <= MaxUsers /\ MaxUsers \in Nat
      BY ClientSessionAssumption DEF TypeOK, ReceiveAuth, Overrun, UI
  <1>3. h \in UI
    <2>1. p.act \in {"login", "register", "logout"} /\ p.code \in {"ok", "bad", "done"}
        BY <1>1 DEF Answers
    <2>2. CASE p.act = "logout"
      <3>1. 0 \in 0 .. (MaxUsers + 1)
          BY <1>2
      <3>2. QED
          BY <1>2, <2>2, <3>1 DEF HandleAuthResponse, UI
    <2>3. CASE p.act # "logout" /\ p.code = "ok"
      <3>1. ui[c].count + 1 \in 0 .. (MaxUsers + 1)
        <4>1. ui[c].count \in 0 .. (MaxUsers + 1)
            BY <1>2 DEF UI
        <4>2. QED
            BY <1>2, <4>1
      <3>2. h = [ui[c] EXCEPT !.count = ui[c].count + 1, !.current = ui[c].count + 1, !.own = ui[c].name,
                              !.screen = "in", !.name = Empty, !.pass = Empty, !.note = "welcome"]
          BY <2>1, <2>3 DEF HandleAuthResponse
      <3>3. QED
          BY <1>2, <3>1, <3>2 DEF UI
    <2>4. CASE p.act # "logout" /\ p.code # "ok"
        BY <1>2, <2>1, <2>4 DEF HandleAuthResponse, UI
    <2>5. QED
        BY <2>2, <2>3, <2>4
  <1>4. ui' \in [Terminals -> UI]
    <2>1. ui' = [ui EXCEPT ![c] = h]
        BY DEF ReceiveAuth
    <2> HIDE DEF h
    <2>2. QED
        BY <1>3, <2>1, ClientTyped
  <1>5. down' \in [Terminals -> Seq(Answers)]
    <2>1. Tail(down[c]) \in Seq(Answers)
        BY DEF TypeOK, ReceiveAuth
    <2>2. QED
        BY <2>1 DEF TypeOK, ReceiveAuth
  <1>6. QED
      BY <1>4, <1>5 DEF TypeOK, ReceiveAuth, UI

(* What the server does with a request.                                    *)
LEMMA HandledTyped ==
  ASSUME TypeOK, NEW c \in Terminals, NEW act, Handles(c, act)
  PROVE  /\ up' \in [Terminals -> Seq(Requests)]
         /\ Head(up[c]) \in Requests
         /\ act # "logout" => /\ Head(up[c]).act \in {"login", "register"}
                              /\ Head(up[c]).name \in Names /\ Head(up[c]).pass \in Passwords
  <1>1. up[c] \in Seq(Requests) /\ up[c] # <<>>
      BY DEF TypeOK, Handles
  <1>2. Head(up[c]) \in Requests /\ Tail(up[c]) \in Seq(Requests)
      BY <1>1
  <1>3. up' \in [Terminals -> Seq(Requests)]
      BY <1>2 DEF TypeOK, Handles
  <1>4. QED
      BY <1>2, <1>3, RequestTyped DEF Handles

(* One answer to c.                                                        *)
LEMMA RepliesTyped ==
  ASSUME TypeOK, NEW c \in Terminals, NEW act, NEW code, [act |-> act, code |-> code] \in Answers,
         Replies(c, act, code)
  PROVE  down' \in [Terminals -> Seq(Answers)]
  <1> DEFINE p == [d \in {c} |-> [act |-> act, code |-> code]]
  <1>1. \A d \in {c} : p[d] \in Answers
      OBVIOUS
  <1>2. down' = Sent({c}, p)
      BY DEF Replies
  <1> HIDE DEF p
  <1>3. QED
      BY <1>1, <1>2, SentTyped

(* TypeOK is inductive.                                                    *)
LEMMA TypeStep == TypeOK /\ [Next]_vars => TypeOK'
  <1> USE ClientSessionAssumption
  <1>1. SUFFICES ASSUME TypeOK, [Next]_vars
                 PROVE  TypeOK'
      OBVIOUS
  <1>2. CASE RestartServer
    <2>1. up' \in [Terminals -> Seq(Requests)]
      <3>1. <<>> \in Seq(Requests)
          OBVIOUS
      <3>2. QED
          BY <1>2, <3>1 DEF RestartServer
    <2>2. link' \in [Terminals -> Links]
      <3>1. ASSUME NEW d \in Terminals
            PROVE  (CASE link[d] = "open" -> "cut" [] link[d] = "left" -> "off" [] OTHER -> link[d]) \in Links
          BY <1>1 DEF TypeOK, Links
      <3>2. QED
          BY <1>2, <3>1 DEF RestartServer
    <2>3. login' \in [Terminals -> Names \cup {Empty}] /\ \A d \in Terminals : login'[d] = Empty
        BY <1>2 DEF RestartServer
    <2>4. QED
        BY <1>1, <1>2, <2>1, <2>2, <2>3 DEF RestartServer, TypeOK
  <1>3. ASSUME NEW c \in Terminals, SendUp(c, [act |-> "logout"])
        PROVE  up' \in [Terminals -> Seq(Requests)]
    <2>1. [act |-> "logout"] \in Requests /\ up[c] \in Seq(Requests)
        BY <1>1 DEF Requests, TypeOK
    <2>2. Append(up[c], [act |-> "logout"]) \in Seq(Requests)
        BY <2>1
    <2>3. QED
        BY <1>1, <1>3, <2>2 DEF SendUp, TypeOK
  <1>4. ASSUME NEW c \in Terminals, NoteKey(c)
        PROVE  calm' \in [Terminals -> BOOLEAN]
    <2>1. (Outstanding(c) = 0 /\ (ui[c].screen = "in" => calm[c])) \in BOOLEAN
        OBVIOUS
    <2>2. QED
        BY <1>1, <1>4, <2>1 DEF NoteKey, TypeOK
  <1>5. ASSUME NEW c \in Terminals, EditForm(c)
        PROVE  TypeOK'
    <2>1. PICK n \in Names \cup {Empty}, p \in Passwords \cup {Empty} :
            ui' = [ui EXCEPT ![c].name = n, ![c].pass = p, ![c].note = "none"]
        BY <1>5 DEF EditForm
    <2> DEFINE z == [ui[c] EXCEPT !.name = n, !.pass = p, !.note = "none"]
    <2>2. ui' \in [Terminals -> UI]
      <3>1. z \in UI
        <4>1. ui[c] \in UI
            BY <1>1 DEF TypeOK, UI
        <4>2. QED
            BY <4>1 DEF UI
      <3>2. ui' = [ui EXCEPT ![c] = z]
          BY <1>1, <2>1 DEF TypeOK
      <3> HIDE DEF z
      <3>3. QED
          BY <1>1, <3>1, <3>2, ClientTyped
    <2>3. QED
        BY <1>1, <1>4, <1>5, <2>2 DEF EditForm, TypeOK, UI
  <1>6. ASSUME NEW c \in Terminals, SwitchForm(c)
        PROVE  TypeOK'
    <2> DEFINE z == [ui[c] EXCEPT !.screen = IF ui[c].screen = "login" THEN "signup" ELSE "login",
                                  !.name = Empty, !.pass = Empty, !.note = "none"]
    <2>1. ui' \in [Terminals -> UI]
      <3>1. z \in UI
        <4>1. ui[c] \in UI
            BY <1>1 DEF TypeOK, UI
        <4>2. QED
            BY <4>1 DEF UI
      <3>2. ui' = [ui EXCEPT ![c] = z]
          BY <1>1, <1>6 DEF SwitchForm, TypeOK
      <3> HIDE DEF z
      <3>3. QED
          BY <1>1, <3>1, <3>2, ClientTyped
    <2>2. QED
        BY <1>1, <1>4, <1>6, <2>1 DEF SwitchForm, TypeOK, UI
  <1>7. ASSUME NEW c \in Terminals, NEW n \in {"required", "waiting"}, ui' = [ui EXCEPT ![c].note = n]
        PROVE  ui' \in [Terminals -> UI]
    <2> DEFINE z == [ui[c] EXCEPT !.note = n]
    <2>1. z \in UI
      <3>1. ui[c] \in UI
          BY <1>1 DEF TypeOK, UI
      <3>2. QED
          BY <3>1 DEF UI
    <2>2. ui' = [ui EXCEPT ![c] = z]
        BY <1>1, <1>7 DEF TypeOK
    <2> HIDE DEF z
    <2>3. QED
        BY <1>1, <2>1, <2>2, ClientTyped
  <1>19. ASSUME NEW c \in Terminals, SubmitIncomplete(c)
        PROVE  TypeOK'
    <2>1. ui' \in [Terminals -> UI]
        BY <1>7, <1>19 DEF SubmitIncomplete
    <2>2. QED
        BY <1>1, <1>4, <1>19, <2>1 DEF SubmitIncomplete, TypeOK, UI
  <1>8. ASSUME NEW c \in Terminals, Submit(c)
        PROVE  TypeOK'
    <2> DEFINE p == [act  |-> IF ui[c].screen = "signup" THEN "register" ELSE "login",
                     name |-> ui[c].name, pass |-> ui[c].pass]
    <2>1. p \in Requests /\ up[c] \in Seq(Requests)
      <3>1. ui[c].name \in Names /\ ui[c].pass \in Passwords
          BY <1>1, <1>8 DEF TypeOK, Submit
      <3>2. QED
          BY <1>1, <3>1 DEF Requests, TypeOK
    <2>2. SendUp(c, p)
        BY <1>8 DEF Submit
    <2> HIDE DEF p
    <2>3. up' \in [Terminals -> Seq(Requests)]
      <3>1. Append(up[c], p) \in Seq(Requests)
          BY <2>1
      <3>2. QED
          BY <1>1, <2>2, <3>1 DEF SendUp, TypeOK
    <2>4. ui' \in [Terminals -> UI]
        BY <1>7, <1>8 DEF Submit
    <2>5. QED
        BY <1>1, <1>4, <1>8, <2>3, <2>4 DEF Submit, TypeOK, UI
  <1>9. ASSUME NEW c \in Terminals, Escape(c)
        PROVE  TypeOK'
      BY <1>1, <1>3, <1>4, <1>9 DEF Escape, TypeOK
  <1>10. ASSUME NEW c \in Terminals, RegisterAccount(c)
         PROVE  TypeOK'
    <2> DEFINE r == Head(up[c])
    <2>1. Handles(c, "register")
        BY <1>10 DEF RegisterAccount
    <2>2. /\ up' \in [Terminals -> Seq(Requests)]
          /\ r.name \in Names /\ r.pass \in Passwords
        BY <1>1, <2>1, HandledTyped
    <2>3. down' \in [Terminals -> Seq(Answers)]
      <3>1. \A k \in {"ok", "bad"} : [act |-> "register", code |-> k] \in Answers
          BY DEF Answers
      <3>2. \E k \in {"ok", "bad"} : Replies(c, "register", k)
          BY <1>10 DEF RegisterAccount
      <3>3. QED
          BY <1>1, <3>1, <3>2, RepliesTyped
    <2>4. CASE password' = [password EXCEPT ![r.name] = r.pass] /\ login' = [login EXCEPT ![c] = r.name]
               /\ taken' = [taken EXCEPT ![c] = FALSE]
        BY <1>1, <1>10, <2>2, <2>3, <2>4 DEF RegisterAccount, TypeOK
    <2>5. CASE UNCHANGED <<password, login, taken>>
        BY <1>1, <1>10, <2>2, <2>3, <2>5 DEF RegisterAccount, TypeOK
    <2>6. QED
        BY <1>10, <2>4, <2>5 DEF RegisterAccount
  <1>11. ASSUME NEW c \in Terminals, LoginAccount(c)
         PROVE  TypeOK'
    <2> DEFINE r == Head(up[c])
               R == RevokedBy(c, r.name)
               p == [d \in R \cup {c} |-> IF d = c THEN [act |-> "login", code |-> "ok"]
                                         ELSE [act |-> "logout", code |-> "ok"]]
    <2>1. Handles(c, "login")
        BY <1>11 DEF LoginAccount
    <2>2. /\ up' \in [Terminals -> Seq(Requests)]
          /\ r.name \in Names /\ r.pass \in Passwords
        BY <1>1, <2>1, HandledTyped
    <2>3. CASE /\ password[r.name] = r.pass
               /\ login' = [d \in Terminals |-> IF d = c THEN r.name ELSE IF d \in R THEN Empty ELSE login[d]]
               /\ taken' = [d \in Terminals |-> d # c /\ (d \in R \/ taken[d])]
               /\ down' = Sent(R \cup {c}, p)
      <3>1. down' \in [Terminals -> Seq(Answers)]
        <4>1. \A d \in R \cup {c} : p[d] \in Answers
            BY DEF Answers
        <4> HIDE DEF p, R
        <4>2. QED
            BY <1>1, <2>3, <4>1, SentTyped
      <3> HIDE DEF p, R, r
      <3>2. login' \in [Terminals -> Names \cup {Empty}] /\ taken' \in [Terminals -> BOOLEAN]
          BY <1>1, <2>2, <2>3 DEF TypeOK
      <3>3. \A d \in Terminals : login'[d] # Empty => password[login'[d]] # Empty
          BY <1>1, <2>2, <2>3 DEF TypeOK
      <3>4. QED
          BY <1>1, <1>11, <2>2, <3>1, <3>2, <3>3 DEF LoginAccount, TypeOK
    <2>4. CASE Replies(c, "login", "bad") /\ UNCHANGED <<login, taken>>
      <3>1. [act |-> "login", code |-> "bad"] \in Answers
          BY DEF Answers
      <3>2. down' \in [Terminals -> Seq(Answers)]
          BY <1>1, <2>4, <3>1, RepliesTyped
      <3>3. QED
          BY <1>1, <1>11, <2>2, <2>4, <3>2 DEF LoginAccount, TypeOK
    <2>5. QED
        BY <1>11, <2>3, <2>4 DEF LoginAccount
  <1>12. ASSUME NEW c \in Terminals, LogoutAccount(c)
         PROVE  TypeOK'
    <2>1. up' \in [Terminals -> Seq(Requests)]
        BY <1>1, <1>12, HandledTyped DEF LogoutAccount
    <2>2. down' \in [Terminals -> Seq(Answers)]
      <3>1. \A k \in {"done", "bad"} : [act |-> "logout", code |-> k] \in Answers
          BY DEF Answers
      <3>2. \E k \in {"done", "bad"} : Replies(c, "logout", k)
          BY <1>12 DEF LogoutAccount
      <3>3. QED
          BY <1>1, <3>1, <3>2, RepliesTyped
    <2>3. QED
        BY <1>1, <1>12, <2>1, <2>2 DEF LogoutAccount, TypeOK
  <1>13. ASSUME NEW c \in Terminals, Disconnect(c)
         PROVE  TypeOK'
    <2>1. <<>> \in Seq(Requests)
        OBVIOUS
    <2>2. QED
        BY <1>1, <1>13, <2>1 DEF Disconnect, TypeOK, Links
  <1>14. ASSUME NEW c \in Terminals, LoseServer(c)
         PROVE  TypeOK'
    <2>1. <<>> \in Seq(Answers)
        OBVIOUS
    <2>2. QED
        BY <1>1, <1>14, <2>1 DEF LoseServer, TypeOK, Links
  <1>15. ASSUME NEW c \in Terminals, StartClient(c)
         PROVE  TypeOK'
      BY <1>1, <1>15 DEF StartClient, TypeOK, Links
  <1>16. ASSUME NEW c \in Terminals, EndClient(c)
         PROVE  TypeOK'
    <2>1. <<>> \in Seq(Answers) /\ 0 \in 0 .. (MaxUsers + 1)
        OBVIOUS
    <2>2. QED
        BY <1>1, <1>16, <2>1 DEF EndClient, TypeOK, Links, Fresh
  <1>17. CASE UNCHANGED vars
      BY <1>1, <1>17 DEF vars, TypeOK
  <1>18. QED
      BY <1>1, <1>2, <1>5, <1>6, <1>7, <1>8, <1>9, <1>10, <1>11, <1>12, <1>13, <1>14, <1>15, <1>16, <1>17, <1>19, ReadFits
      DEF Next, Keys, HandleAuthPacket

-----------------------------------------------------------------------------
(* Every step keeps every terminal sound. *)

AllSound ==
  \A c \in Terminals : Sound(link[c], login[c], up[c], down[c], ui[c], calm[c], taken[c])

IInv == TypeOK /\ AllSound

(* Nothing is owed to c: what is on the way are notices.                   *)
LEMMA NothingOwed ==
  ASSUME TypeOK, NEW c \in Terminals, Outstanding(c) = 0
  PROVE  up[c] = <<>> /\ \A k \in DOMAIN down[c] : Notice(down[c][k])
  <1> DEFINE A == {k \in DOMAIN down[c] : IsAnswer(down[c][k])}
  <1>1. up[c] \in Seq(Requests) /\ down[c] \in Seq(Answers)
      BY DEF TypeOK
  <1>2. IsFiniteSet(A)
    <2>1. DOMAIN down[c] = 1 .. Len(down[c]) /\ Len(down[c]) \in Nat
        BY <1>1
    <2>2. IsFiniteSet(1 .. Len(down[c])) /\ A \subseteq 1 .. Len(down[c])
        BY <2>1, FS_Interval
    <2>3. QED
        BY <2>2, FS_Subset
  <1>3. Outstanding(c) = Len(up[c]) + Cardinality(A)
      BY DEF Outstanding
  <1> HIDE DEF A
  <1>4. Cardinality(A) \in Nat /\ Len(up[c]) \in Nat
      BY <1>1, <1>2, FS_CardinalityType
  <1>5. Cardinality(A) = 0 /\ Len(up[c]) = 0
      BY <1>3, <1>4
  <1>6. A = {}
      BY <1>2, <1>5, FS_EmptySet
  <1>7. up[c] = <<>>
      BY <1>1, <1>5
  <1>8. QED
      BY <1>6, <1>7 DEF A, IsAnswer, Notice

(* A key's mark on calm.                                                   *)
LEMMA CalmKey ==
  ASSUME TypeOK, NEW c \in Terminals, NoteKey(c)
  PROVE  /\ calm'[c] \in BOOLEAN
         /\ calm'[c] => /\ ui[c].screen = "in" => calm[c]
                        /\ up[c] = <<>>
                        /\ \A k \in DOMAIN down[c] : Notice(down[c][k])
         /\ \A e \in Terminals \ {c} : calm'[e] = calm[e]
  <1>1. calm'[c] = (Outstanding(c) = 0 /\ (ui[c].screen = "in" => calm[c]))
      BY DEF NoteKey, TypeOK
  <1>2. \A e \in Terminals \ {c} : calm'[e] = calm[e]
      BY DEF NoteKey, TypeOK
  <1>3. QED
      BY <1>1, <1>2, NothingOwed

(* A key on a form of c, with the request it sends, if any.                *)
LEMMA FormKeyStep ==
  ASSUME IInv, NEW c \in Terminals, NEW z \in State, CanPress(c), NoteKey(c),
         ui' = [ui EXCEPT ![c] = z], ui[c].screen # "in",
         z.screen # "in", z.own = ui[c].own, z.note # "elsewhere",
         \/ up' = up /\ (z.note # "waiting" \/ link[c] # "open")
         \/ /\ link[c] = "open" /\ z.note = "waiting"
            /\ \E p \in Requests : p.act # "logout" /\ p.name = z.name
                                   /\ up' = [up EXCEPT ![c] = Append(up[c], p)],
         UNCHANGED <<login, link, down, taken>>
  PROVE  AllSound'
  <1>1. SUFFICES ASSUME NEW e \in Terminals
                 PROVE  Sound(link[e], login[e], up'[e], down[e], ui'[e], calm'[e], taken[e])
      BY DEF AllSound
  <1>2. Sound(link[e], login[e], up[e], down[e], ui[e], calm[e], taken[e])
      BY DEF IInv, AllSound
  <1>3. ui'[c] = z /\ (e # c => ui'[e] = ui[e] /\ up'[e] = up[e] /\ calm'[e] = calm[e])
      BY CalmKey DEF IInv, TypeOK
  <1>4. CASE e # c
      BY <1>2, <1>3, <1>4
  <1>5. CASE e = c
    <2>1. /\ up[c] \in Seq(Requests) /\ down[c] \in Seq(Answers) /\ ui[c] \in State
          /\ calm[c] \in BOOLEAN /\ taken[c] \in BOOLEAN
        BY TerminalTyped DEF IInv
    <2>2. /\ calm'[c] \in BOOLEAN
          /\ calm'[c] => up[c] = <<>> /\ \A k \in DOMAIN down[c] : Notice(down[c][k])
        BY CalmKey DEF IInv
    <2>3. link[c] \in {"open", "cut", "dead"}
        BY DEF CanPress, Runs
    <2>4. \/ up'[c] = up[c] /\ (z.note # "waiting" \/ link[c] # "open")
          \/ /\ link[c] = "open" /\ z.note = "waiting"
             /\ \E p \in Requests : p.act # "logout" /\ p.name = z.name /\ up'[c] = Append(up[c], p)
        BY DEF IInv, TypeOK
    <2>5. up'[c] \in Seq(Requests)
        BY <2>1, <2>4
    <2>6. Sound(link[c], login[c], up'[c], down[c], z, calm'[c], taken[c])
        BY <1>2, <1>5, <2>1, <2>2, <2>3, <2>4, <2>5, KeyOnForm
    <2>7. QED
        BY <1>3, <1>5, <2>6
  <1>6. QED
      BY <1>4, <1>5

(* What the server tells its terminals.                                    *)
LEMMA SentTo ==
  ASSUME NEW D, NEW p, NEW e \in Terminals, down' = Sent(D, p)
  PROVE  /\ e \in D => down'[e] = IF link[e] = "open" THEN Append(down[e], p[e]) ELSE down[e]
         /\ e \notin D => down'[e] = down[e]
  BY DEF Sent

(* The server answers the first request of c, whose account is b then, and *)
(* nobody else is concerned.                                               *)
AnswerTo(c, act, code, b, w) ==
  /\ Handles(c, act) /\ Replies(c, act, code)
  /\ login' = [login EXCEPT ![c] = b] /\ taken' = [taken EXCEPT ![c] = w]
  /\ \/ act # "logout" /\ code = "ok" /\ b = Head(up[c]).name /\ b # Empty /\ ~w
     \/ act # "logout" /\ code # "ok" /\ b = login[c] /\ w = taken[c]
     \/ /\ act = "logout" /\ code = (IF login[c] = Empty THEN "bad" ELSE "done")
        /\ b = Empty /\ w = taken[c]
  /\ UNCHANGED <<link, ui, calm>>

(* AnswerTo keeps every terminal sound.                                    *)
LEMMA AnswerStep ==
  ASSUME IInv, NEW c \in Terminals, NEW act, NEW code, [act |-> act, code |-> code] \in Answers,
         NEW b, NEW w \in BOOLEAN, AnswerTo(c, act, code, b, w)
  PROVE  AllSound'
  <1> DEFINE p == [act |-> act, code |-> code]
  <1>1. SUFFICES ASSUME NEW e \in Terminals
                 PROVE  Sound(link[e], login'[e], up'[e], down'[e], ui[e], calm[e], taken'[e])
      BY DEF AllSound, AnswerTo
  <1>2. Sound(link[e], login[e], up[e], down[e], ui[e], calm[e], taken[e])
      BY DEF IInv, AllSound
  <1>3. /\ login'[c] = b /\ taken'[c] = w /\ up'[c] = Tail(up[c])
        /\ e # c => login'[e] = login[e] /\ taken'[e] = taken[e] /\ up'[e] = up[e]
      BY DEF IInv, TypeOK, AnswerTo, Handles
  <1>4. /\ down'[c] = IF link[c] = "open" THEN Append(down[c], p) ELSE down[c]
        /\ e # c => down'[e] = down[e]
    <2> DEFINE m == [d \in {c} |-> p]
    <2>1. down' = Sent({c}, m) /\ m[c] = p
        BY DEF AnswerTo, Replies
    <2> HIDE DEF m
    <2>2. c \in {c} => down'[c] = IF link[c] = "open" THEN Append(down[c], m[c]) ELSE down[c]
        BY <2>1, SentTo
    <2>3. e \notin {c} => down'[e] = down[e]
        BY <2>1, SentTo
    <2>4. QED
        BY <2>1, <2>2, <2>3
  <1>5. CASE e # c
      BY <1>2, <1>3, <1>4, <1>5
  <1>6. CASE e = c
    <2>1. /\ up[c] \in Seq(Requests) /\ down[c] \in Seq(Answers) /\ ui[c] \in State
          /\ calm[c] \in BOOLEAN /\ taken[c] \in BOOLEAN
        BY TerminalTyped DEF IInv
    <2>2. link[c] \in {"open", "left"} /\ up[c] # <<>> /\ Head(up[c]).act = act
        BY DEF AnswerTo, Handles, Connected
    <2>3. p \in Answers /\ p.act = act /\ p.code = code
        OBVIOUS
    <2> HIDE DEF p
    <2>4. Replied(link[c], login[c], up[c], down[c], taken[c], p, b, down'[c], w)
        BY <1>4, <2>2, <2>3 DEF AnswerTo, Replied
    <2>5. Sound(link[c], login[c], up[c], down[c], ui[c], calm[c], taken[c])
        BY <1>2, <1>6
    <2>6. Sound(link[c], b, Tail(up[c]), down'[c], ui[c], calm[c], w)
        BY <2>1, <2>3, <2>4, <2>5, Answered
    <2>7. QED
        BY <1>3, <1>6, <2>6
  <1>7. QED
      BY <1>5, <1>6

(* A login of c to the account n, with the notices to R, the others in it.  *)
LoginTo(c, n, R) ==
  /\ Handles(c, "login") /\ n = Head(up[c]).name /\ R = RevokedBy(c, n)
  /\ login' = [d \in Terminals |-> IF d = c THEN n ELSE IF d \in R THEN Empty ELSE login[d]]
  /\ taken' = [d \in Terminals |-> d # c /\ (d \in R \/ taken[d])]
  /\ down' = Sent(R \cup {c}, [d \in R \cup {c} |-> IF d = c THEN [act |-> "login", code |-> "ok"]
                                                    ELSE [act |-> "logout", code |-> "ok"]])
  /\ UNCHANGED <<link, ui, calm>>

(* LoginTo keeps every terminal sound.                                     *)
LEMMA LoginStep ==
  ASSUME IInv, NEW c \in Terminals, NEW n \in Names, NEW R, LoginTo(c, n, R)
  PROVE  AllSound'
  <1> DEFINE ok == [act |-> "login", code |-> "ok"]
             notice == [act |-> "logout", code |-> "ok"]
             m == [d \in R \cup {c} |-> IF d = c THEN ok ELSE notice]
  <1>1. SUFFICES ASSUME NEW e \in Terminals
                 PROVE  Sound(link[e], login'[e], up'[e], down'[e], ui[e], calm[e], taken'[e])
      BY DEF AllSound, LoginTo
  <1>2. Sound(link[e], login[e], up[e], down[e], ui[e], calm[e], taken[e])
      BY DEF IInv, AllSound
  <1>3. /\ up[e] \in Seq(Requests) /\ down[e] \in Seq(Answers) /\ ui[e] \in State
        /\ calm[e] \in BOOLEAN /\ taken[e] \in BOOLEAN
      BY TerminalTyped DEF IInv
  <1>4. /\ ok \in Answers /\ ok.act # "logout" /\ ok.code = "ok"
        /\ notice \in Answers /\ Notice(notice) /\ n # Empty
      BY ClientSessionAssumption DEF Answers, Notice
  <1>5. up'[c] = Tail(up[c]) /\ (e # c => up'[e] = up[e])
      BY DEF IInv, TypeOK, LoginTo, Handles
  <1>6. /\ e = c => m[e] = ok
        /\ e \in R => e # c /\ m[e] = notice /\ link[e] \in {"open", "left"} /\ login[e] = n
      BY DEF LoginTo, RevokedBy, Connected
  <1>7. /\ e \in R \cup {c} => down'[e] = IF link[e] = "open" THEN Append(down[e], m[e]) ELSE down[e]
        /\ e \notin R \cup {c} => down'[e] = down[e]
    <2>1. down' = Sent(R \cup {c}, m)
        BY DEF LoginTo
    <2> HIDE DEF m
    <2>2. QED
        BY <2>1, SentTo
  <1> HIDE DEF m, ok, notice
  <1>8. CASE e = c
    <2>1. login'[e] = n /\ taken'[e] = FALSE
        BY <1>8 DEF LoginTo
    <2>2. link[e] \in {"open", "left"} /\ up[e] # <<>> /\ Head(up[e]).act = "login" /\ n = Head(up[e]).name
        BY <1>8 DEF LoginTo, Handles, Connected
    <2>3. Replied(link[e], login[e], up[e], down[e], taken[e], ok, n, down'[e], taken'[e])
        BY <1>4, <1>6, <1>7, <1>8, <2>1, <2>2 DEF Replied
    <2>4. taken'[e] \in BOOLEAN
        BY <2>1
    <2>5. Sound(link[e], n, Tail(up[e]), down'[e], ui[e], calm[e], taken'[e])
        BY <1>2, <1>3, <1>4, <2>3, <2>4, Answered
    <2>6. QED
        BY <1>5, <1>8, <2>1, <2>5
  <1>9. CASE e \in R
    <2>1. e # c /\ login'[e] = Empty /\ taken'[e] = TRUE
        BY <1>6, <1>9 DEF LoginTo
    <2>2. Informed(link[e], login[e], down[e], notice, down'[e])
        BY <1>4, <1>6, <1>7, <1>9 DEF Informed
    <2>3. Sound(link[e], Empty, up[e], down'[e], ui[e], calm[e], TRUE)
        BY <1>2, <1>3, <1>4, <2>2, TakenOver
    <2>4. QED
        BY <1>5, <2>1, <2>3
  <1>10. CASE e # c /\ e \notin R
    <2>1. login'[e] = login[e] /\ taken'[e] = taken[e]
        BY <1>3, <1>10 DEF LoginTo
    <2>2. QED
        BY <1>2, <1>5, <1>7, <1>10, <2>1
  <1>11. QED
      BY <1>8, <1>9, <1>10

(* AllSound is inductive.                                                  *)
LEMMA SoundStep == IInv /\ [Next]_vars => AllSound'
  <1>1. SUFFICES ASSUME IInv, [Next]_vars
                 PROVE  AllSound'
      OBVIOUS
  <1>2. ASSUME NEW c \in Terminals
        PROVE  /\ login[c] \in Names \cup {Empty} /\ link[c] \in Links
               /\ up[c] \in Seq(Requests) /\ down[c] \in Seq(Answers)
               /\ ui[c] \in State /\ calm[c] \in BOOLEAN /\ taken[c] \in BOOLEAN
               /\ Sound(link[c], login[c], up[c], down[c], ui[c], calm[c], taken[c])
      BY <1>1, TerminalTyped DEF IInv, AllSound
  <1>3. CASE RestartServer
    <2>1. SUFFICES ASSUME NEW e \in Terminals
                   PROVE  Sound(link'[e], login'[e], up'[e], down'[e], ui'[e], calm'[e], taken'[e])
        BY DEF AllSound
    <2>2. /\ login'[e] = Empty /\ up'[e] = <<>> /\ down'[e] = down[e] /\ ui'[e] = ui[e]
          /\ link[e] = "open" => link'[e] = "cut"
          /\ link[e] = "left" => link'[e] = "off"
          /\ link[e] \notin {"open", "left"} => link'[e] = link[e]
        BY <1>3 DEF RestartServer
    <2>3. link'[e] # "open"
        BY <2>2
    <2>4. link'[e] \in {"off", "left"} => link[e] \in {"off", "left"}
        BY <1>2, <2>2 DEF Links
    <2>5. Idle(link'[e], login'[e], up'[e], down'[e], ui'[e]) /\ Nameless(ui'[e])
        BY <1>2, <2>2, <2>4 DEF Sound, Idle
    <2>6. QED
        BY <2>3, <2>5 DEF Sound
  <1>4. ASSUME NEW c \in Terminals, EditForm(c)
        PROVE  AllSound'
    <2>1. PICK n \in Names \cup {Empty}, p \in Passwords \cup {Empty} :
            ui' = [ui EXCEPT ![c].name = n, ![c].pass = p, ![c].note = "none"]
        BY <1>4 DEF EditForm
    <2> DEFINE z == [ui[c] EXCEPT !.name = n, !.pass = p, !.note = "none"]
    <2>2. ui' = [ui EXCEPT ![c] = z]
        BY <1>1, <2>1 DEF IInv, TypeOK
    <2>3. /\ z \in State /\ z.screen = ui[c].screen /\ z.own = ui[c].own /\ z.note = "none"
        BY <1>2 DEF State
    <2> HIDE DEF z
    <2>4. /\ CanPress(c) /\ NoteKey(c) /\ ui[c].screen # "in" /\ up' = up
          /\ UNCHANGED <<login, link, down, taken>>
        BY <1>4 DEF EditForm
    <2>5. QED
        BY <1>1, <2>2, <2>3, <2>4, FormKeyStep
  <1>5. ASSUME NEW c \in Terminals, SwitchForm(c)
        PROVE  AllSound'
    <2> DEFINE z == [ui[c] EXCEPT !.screen = IF ui[c].screen = "login" THEN "signup" ELSE "login",
                                  !.name = Empty, !.pass = Empty, !.note = "none"]
    <2>1. ui' = [ui EXCEPT ![c] = z]
        BY <1>1, <1>5 DEF SwitchForm, IInv, TypeOK
    <2>2. /\ z \in State /\ z.screen # "in" /\ z.own = ui[c].own /\ z.note = "none"
        BY <1>2 DEF State
    <2> HIDE DEF z
    <2>3. /\ CanPress(c) /\ NoteKey(c) /\ ui[c].screen # "in" /\ up' = up
          /\ UNCHANGED <<login, link, down, taken>>
        BY <1>5 DEF SwitchForm
    <2>4. QED
        BY <1>1, <2>1, <2>2, <2>3, FormKeyStep
  <1>6. ASSUME NEW c \in Terminals, SubmitIncomplete(c)
        PROVE  AllSound'
    <2> DEFINE z == [ui[c] EXCEPT !.note = "required"]
    <2>1. ui' = [ui EXCEPT ![c] = z]
        BY <1>1, <1>6 DEF SubmitIncomplete, IInv, TypeOK
    <2>2. /\ z \in State /\ z.screen = ui[c].screen /\ z.own = ui[c].own /\ z.note = "required"
        BY <1>2 DEF State
    <2> HIDE DEF z
    <2>3. /\ CanPress(c) /\ NoteKey(c) /\ ui[c].screen # "in" /\ up' = up
          /\ UNCHANGED <<login, link, down, taken>>
        BY <1>6 DEF SubmitIncomplete
    <2>4. QED
        BY <1>1, <2>1, <2>2, <2>3, FormKeyStep
  <1>7. ASSUME NEW c \in Terminals, Submit(c)
        PROVE  AllSound'
    <2> DEFINE z == [ui[c] EXCEPT !.note = "waiting"]
               p == [act  |-> IF ui[c].screen = "signup" THEN "register" ELSE "login",
                     name |-> ui[c].name, pass |-> ui[c].pass]
    <2>1. ui' = [ui EXCEPT ![c] = z]
        BY <1>1, <1>7 DEF Submit, IInv, TypeOK
    <2>2. /\ z \in State /\ z.screen = ui[c].screen /\ z.own = ui[c].own /\ z.note = "waiting"
          /\ z.name = ui[c].name
        BY <1>2 DEF State
    <2>3. p \in Requests /\ p.act # "logout" /\ p.name = ui[c].name
      <3>1. ui[c].name \in Names /\ ui[c].pass \in Passwords
          BY <1>2, <1>7 DEF State, Submit
      <3>2. QED
          BY <3>1 DEF Requests
    <2>4. SendUp(c, p)
        BY <1>7 DEF Submit
    <2> HIDE DEF z, p
    <2>5. \/ link[c] # "open" /\ up' = up
          \/ link[c] = "open" /\ up' = [up EXCEPT ![c] = Append(up[c], p)]
        BY <1>1, <2>4 DEF SendUp, IInv, TypeOK
    <2>6. /\ CanPress(c) /\ NoteKey(c) /\ ui[c].screen # "in"
          /\ UNCHANGED <<login, link, down, taken>>
        BY <1>7 DEF Submit
    <2>7. \/ up' = up /\ (z.note # "waiting" \/ link[c] # "open")
          \/ /\ link[c] = "open" /\ z.note = "waiting"
             /\ \E r \in Requests : r.act # "logout" /\ r.name = z.name
                                    /\ up' = [up EXCEPT ![c] = Append(up[c], r)]
        BY <2>2, <2>3, <2>5
    <2>8. QED
        BY <1>1, <2>1, <2>2, <2>6, <2>7, FormKeyStep
  <1>8. ASSUME NEW c \in Terminals, Escape(c)
        PROVE  AllSound'
    <2>1. SUFFICES ASSUME NEW e \in Terminals
                   PROVE  Sound(link[e], login[e], up'[e], down[e], ui[e], calm'[e], taken[e])
        BY <1>8 DEF AllSound, Escape
    <2>2. /\ CanPress(c) /\ NoteKey(c) /\ ui[c].screen = "in" /\ SendUp(c, [act |-> "logout"])
        BY <1>8 DEF Escape
    <2>3. /\ calm'[c] \in BOOLEAN
          /\ calm'[c] => calm[c] /\ up[c] = <<>> /\ \A k \in DOMAIN down[c] : Notice(down[c][k])
          /\ e # c => calm'[e] = calm[e]
        BY <1>1, <2>2, CalmKey DEF IInv
    <2>4. CASE e # c
      <3>1. up'[e] = up[e]
          BY <1>1, <2>2, <2>4 DEF SendUp, IInv, TypeOK
      <3>2. QED
          BY <1>2, <2>3, <2>4, <3>1
    <2>5. CASE e = c
      <3>1. up'[c] = IF link[c] = "open" THEN Append(up[c], [act |-> "logout"]) ELSE up[c]
          BY <1>1, <2>2 DEF SendUp, IInv, TypeOK
      <3>2. up'[c] \in Seq(Requests)
        <4>1. [act |-> "logout"] \in Requests
            BY DEF Requests
        <4>2. QED
            BY <1>2, <3>1, <4>1
      <3>3. link[c] \in {"open", "cut", "dead"}
          BY <2>2 DEF CanPress, Runs
      <3>4. Escaped(link[c], up[c], down[c], ui[c], calm[c], up'[c], calm'[c])
          BY <2>2, <2>3, <3>1, <3>3 DEF Escaped
      <3>5. Sound(link[c], login[c], up'[c], down[c], ui[c], calm'[c], taken[c])
          BY <1>2, <2>3, <3>2, <3>4, KeyInside
      <3>6. QED
          BY <2>5, <3>5
    <2>6. QED
        BY <2>4, <2>5
  <1>9. ASSUME NEW c \in Terminals, RegisterAccount(c)
        PROVE  AllSound'
    <2> DEFINE r == Head(up[c])
    <2>1. Handles(c, "register") /\ r.name \in Names /\ r.name # Empty
        BY <1>1, <1>9, HandledTyped, ClientSessionAssumption DEF RegisterAccount, IInv
    <2>2. [act |-> "register", code |-> "ok"] \in Answers /\ [act |-> "register", code |-> "bad"] \in Answers
        BY DEF Answers
    <2>3. CASE /\ login' = [login EXCEPT ![c] = r.name] /\ taken' = [taken EXCEPT ![c] = FALSE]
               /\ Replies(c, "register", "ok")
      <3>1. AnswerTo(c, "register", "ok", r.name, FALSE)
          BY <1>9, <2>1, <2>3 DEF AnswerTo, RegisterAccount
      <3>2. QED
          BY <1>1, <2>2, <3>1, AnswerStep
    <2>4. CASE Replies(c, "register", "bad") /\ UNCHANGED <<login, taken>>
      <3>1. login' = [login EXCEPT ![c] = login[c]] /\ taken' = [taken EXCEPT ![c] = taken[c]]
          BY <1>1, <2>4 DEF IInv, TypeOK
      <3>2. AnswerTo(c, "register", "bad", login[c], taken[c])
          BY <1>9, <2>1, <2>4, <3>1 DEF AnswerTo, RegisterAccount
      <3>3. QED
          BY <1>1, <1>2, <2>2, <3>2, AnswerStep
    <2>5. QED
        BY <1>9, <2>3, <2>4 DEF RegisterAccount
  <1>10. ASSUME NEW c \in Terminals, LoginAccount(c)
         PROVE  AllSound'
    <2> DEFINE r == Head(up[c])
               R == RevokedBy(c, r.name)
    <2>1. Handles(c, "login") /\ r.name \in Names
        BY <1>1, <1>10, HandledTyped DEF LoginAccount, IInv
    <2>2. CASE password[r.name] = r.pass
      <3>1. LoginTo(c, r.name, R)
          BY <1>10, <2>1, <2>2 DEF LoginTo, LoginAccount
      <3>2. QED
          BY <1>1, <2>1, <3>1, LoginStep
    <2>3. CASE password[r.name] # r.pass
      <3>1. Replies(c, "login", "bad") /\ UNCHANGED <<login, taken, link, ui, calm>>
          BY <1>10, <2>3 DEF LoginAccount
      <3>2. login' = [login EXCEPT ![c] = login[c]] /\ taken' = [taken EXCEPT ![c] = taken[c]]
          BY <1>1, <3>1 DEF IInv, TypeOK
      <3>3. AnswerTo(c, "login", "bad", login[c], taken[c])
          BY <2>1, <3>1, <3>2 DEF AnswerTo
      <3>4. [act |-> "login", code |-> "bad"] \in Answers
          BY DEF Answers
      <3>5. QED
          BY <1>1, <1>2, <3>3, <3>4, AnswerStep
    <2>4. QED
        BY <2>2, <2>3
  <1>11. ASSUME NEW c \in Terminals, LogoutAccount(c)
         PROVE  AllSound'
    <2> DEFINE code == IF login[c] = Empty THEN "bad" ELSE "done"
    <2>1. [act |-> "logout", code |-> code] \in Answers
        BY DEF Answers
    <2>2. taken' = [taken EXCEPT ![c] = taken[c]]
        BY <1>1, <1>11 DEF LogoutAccount, IInv, TypeOK
    <2>3. AnswerTo(c, "logout", code, Empty, taken[c])
        BY <1>11, <2>2 DEF AnswerTo, LogoutAccount
    <2> HIDE DEF code
    <2>4. QED
        BY <1>1, <1>2, <2>1, <2>3, AnswerStep
  <1>12. ASSUME NEW c \in Terminals, Disconnect(c)
         PROVE  AllSound'
    <2>1. SUFFICES ASSUME NEW e \in Terminals
                   PROVE  Sound(link'[e], login'[e], up'[e], down[e], ui[e], calm[e], taken[e])
        BY <1>12 DEF AllSound, Disconnect
    <2>2. e = c => link[e] = "left" /\ link'[e] = "off" /\ login'[e] = Empty /\ up'[e] = <<>>
        BY <1>1, <1>12 DEF Disconnect, IInv, TypeOK
    <2>3. e # c => link'[e] = link[e] /\ login'[e] = login[e] /\ up'[e] = up[e]
        BY <1>1, <1>12 DEF Disconnect, IInv, TypeOK
    <2>4. QED
        BY <1>2, <2>2, <2>3 DEF Sound, Idle
  <1>13. ASSUME NEW c \in Terminals, ReceiveAuth(c)
         PROVE  AllSound'
    <2>1. SUFFICES ASSUME NEW e \in Terminals
                   PROVE  Sound(link[e], login[e], up[e], down'[e], ui'[e], calm[e], taken[e])
        BY <1>13 DEF AllSound, ReceiveAuth
    <2>2. CASE e = c
      <3>1. /\ down'[c] = Tail(down[c]) /\ ui'[c] = HandleAuthResponse(ui[c], Head(down[c]))
            /\ link[c] \in {"open", "cut"} /\ down[c] # <<>>
          BY <1>1, <1>13 DEF ReceiveAuth, IInv, TypeOK
      <3>2. Sound(link[c], login[c], up[c], Tail(down[c]),
                  HandleAuthResponse(ui[c], Head(down[c])), calm[c], taken[c])
          BY <1>2, <3>1, ReadOne
      <3>3. QED
          BY <2>2, <3>1, <3>2
    <2>3. CASE e # c
      <3>1. down'[e] = down[e] /\ ui'[e] = ui[e]
          BY <1>1, <1>13, <2>3 DEF ReceiveAuth, IInv, TypeOK
      <3>2. QED
          BY <1>2, <3>1
    <2>4. QED
        BY <2>2, <2>3
  <1>14. ASSUME NEW c \in Terminals, LoseServer(c)
         PROVE  AllSound'
    <2>1. SUFFICES ASSUME NEW e \in Terminals
                   PROVE  Sound(link'[e], login[e], up[e], down'[e], ui[e], calm[e], taken[e])
        BY <1>14 DEF AllSound, LoseServer
    <2>2. e = c => link[e] = "cut" /\ link'[e] = "dead"
        BY <1>1, <1>14 DEF LoseServer, IInv, TypeOK
    <2>3. e # c => link'[e] = link[e] /\ down'[e] = down[e]
        BY <1>1, <1>14 DEF LoseServer, IInv, TypeOK
    <2>4. QED
        BY <1>2, <2>2, <2>3 DEF Sound, Idle
  <1>15. ASSUME NEW c \in Terminals, StartClient(c)
         PROVE  AllSound'
    <2>1. SUFFICES ASSUME NEW e \in Terminals
                   PROVE  Sound(link'[e], login[e], up[e], down[e], ui[e], calm'[e], taken'[e])
        BY <1>15 DEF AllSound, StartClient
    <2>2. CASE e = c
      <3>1. /\ link[c] = "off" /\ link'[c] = "open"
            /\ login[c] = Empty /\ up[c] = <<>> /\ down[c] = <<>> /\ ui[c] = Fresh
          BY <1>1, <1>2, <1>15 DEF StartClient, IInv, TypeOK, Sound, Idle
      <3>2. Len(down[c]) = 0 /\ Len(up[c]) = 0
          BY <3>1
      <3>3. LastState(ui[c], down[c]) = ui[c] /\ Readings(ui[c], down[c])[0] = ui[c]
          BY <3>2, NothingToRead
      <3>4. ui[c].screen = "login" /\ ui[c].own = Empty /\ ui[c].note = "none"
          BY <3>1 DEF Fresh
      <3>5. ScreenFollows(login[c], down[c], ui[c]) /\ Nameless(ui[c]) /\ Promised(up[c], down[c], ui[c])
          BY <3>1, <3>3, <3>4 DEF ScreenFollows, Nameless, Promised
      <3>6. NoticesEnd(down[c], ui[c])
          BY <3>2 DEF NoticesEnd
      <3>7. OneAtATime(login[c], up[c], down[c], ui[c], taken'[c])
          BY <3>1, <3>2, <3>3, <3>4 DEF OneAtATime
      <3>8. QED
          BY <2>2, <3>1, <3>5, <3>6, <3>7 DEF Sound, Idle
    <2>3. CASE e # c
      <3>1. link'[e] = link[e] /\ calm'[e] = calm[e] /\ taken'[e] = taken[e]
          BY <1>1, <1>15, <2>3 DEF StartClient, IInv, TypeOK
      <3>2. QED
          BY <1>2, <3>1
    <2>4. QED
        BY <2>2, <2>3
  <1>16. ASSUME NEW c \in Terminals, EndClient(c)
         PROVE  AllSound'
    <2>1. SUFFICES ASSUME NEW e \in Terminals
                   PROVE  Sound(link'[e], login[e], up[e], down'[e], ui'[e], calm[e], taken[e])
        BY <1>16 DEF AllSound, EndClient
    <2>2. CASE e = c
      <3>1. /\ down'[c] = <<>> /\ ui'[c] = Fresh /\ link[c] \in {"open", "cut", "dead"}
            /\ link'[c] = IF link[c] = "open" THEN "left" ELSE "off"
          BY <1>1, <1>16 DEF EndClient, Runs, IInv, TypeOK
      <3>2. Nameless(Fresh)
          BY DEF Nameless, Fresh
      <3>3. QED
          BY <1>2, <2>2, <3>1, <3>2 DEF Sound, Idle
    <2>3. CASE e # c
      <3>1. link'[e] = link[e] /\ down'[e] = down[e] /\ ui'[e] = ui[e]
          BY <1>1, <1>16, <2>3 DEF EndClient, IInv, TypeOK
      <3>2. QED
          BY <1>2, <3>1
    <2>4. QED
        BY <2>2, <2>3
  <1>17. CASE UNCHANGED vars
      BY <1>2, <1>17 DEF vars, AllSound
  <1>18. QED
      BY <1>1, <1>3, <1>4, <1>5, <1>6, <1>7, <1>8, <1>9, <1>10, <1>11, <1>12, <1>13, <1>14, <1>15, <1>16,
         <1>17 DEF Next, Keys, HandleAuthPacket

(* No client runs at the start.                                            *)
LEMMA InitIInv == Init => IInv
  <1>1. SUFFICES ASSUME Init PROVE IInv
      OBVIOUS
  <1>2. TypeOK
    <2>1. <<>> \in Seq(Requests) /\ <<>> \in Seq(Answers)
        OBVIOUS
    <2>2. 0 \in 0 .. (MaxUsers + 1)
        BY ClientSessionAssumption
    <2>3. QED
        BY <1>1, <2>1, <2>2 DEF Init, TypeOK, Links, Fresh
  <1>3. AllSound
    <2>1. Nameless(Fresh)
        BY DEF Nameless, Fresh
    <2>2. QED
        BY <1>1, <2>1 DEF Init, AllSound, Sound, Idle
  <1>4. QED
      BY <1>2, <1>3 DEF IInv

(* The inductive invariant holds throughout.                               *)
LEMMA Invariance == Spec => []IInv
  <1>1. IInv /\ [Next]_vars => IInv'
      BY TypeStep, SoundStep DEF IInv
  <1>2. QED
      BY InitIInv, <1>1, PTL DEF Spec

(* Every variable keeps its type, and a connection is in an account that    *)
(* exists.                                                                 *)
THEOREM Typing == Spec => []TypeOK
  <1>1. IInv => TypeOK
      BY DEF IInv
  <1>2. QED
      BY Invariance, <1>1, PTL

(* What is on its way to a connected client leaves it behind the login      *)
(* exactly when its connection is in an account, whatever was pressed and   *)
(* whoever took the account over (ui_handle_auth_response, auth.c).         *)
THEOREM TheLastWordStands == Spec => []LastWord
  <1>1. IInv => LastWord
      BY DEF IInv, AllSound, Sound, ScreenFollows, LastState, LastWord, Settled
  <1>2. QED
      BY Invariance, <1>1, PTL

(* Whoever waits for each answer has the name of the account on the screen: *)
(* the form still holds it when the answer comes.                           *)
THEOREM TheNameIsTheAccount == Spec => []NameIsAccount
  <1>1. IInv => NameIsAccount
      BY DEF IInv, AllSound, Sound, OneAtATime, LastState, NameIsAccount, Settled
  <1>2. QED
      BY Invariance, <1>1, PTL

(* The line under the form is true: "elsewhere" of an account that was taken *)
(* over, "Authenticating..." of a request or an answer that is on its way.   *)
THEOREM TheNoteIsTrue == Spec => []NoteIsTrue
  <1>1. ASSUME IInv
        PROVE  NoteIsTrue
    <2>1. SUFFICES ASSUME NEW c \in Terminals, link[c] = "open"
                   PROVE  /\ ui[c].note = "elsewhere" /\ calm[c] => taken[c]
                          /\ Promised(up[c], down[c], ui[c])
        BY DEF NoteIsTrue, Promised
    <2>2. Sound(link[c], login[c], up[c], down[c], ui[c], calm[c], taken[c])
        BY <1>1 DEF IInv, AllSound
    <2>3. Promised(up[c], down[c], ui[c])
        BY <2>1, <2>2 DEF Sound
    <2>4. ASSUME ui[c].note = "elsewhere", calm[c]
          PROVE  taken[c]
      <3>1. OneAtATime(login[c], up[c], down[c], ui[c], taken[c])
          BY <2>1, <2>2, <2>4 DEF Sound
      <3>2. Len(down[c]) \in Nat
          BY <1>1, TerminalTyped DEF IInv
      <3>3. Readings(ui[c], down[c])[0] = ui[c] /\ 0 \in 0 .. Len(down[c])
          BY <3>2, ReadingsAre
      <3>4. QED
          BY <2>4, <3>1, <3>3 DEF OneAtATime
    <2>5. QED
        BY <2>3, <2>4
  <1>2. QED
      BY Invariance, <1>1, PTL

=============================================================================
