----------------------------- MODULE Chat_proofs -----------------------------
(***************************************************************************)
(* Proofs about Chat for any clients, channels and bounds: its types, and  *)
(* that the screen of a client is the history of its channel.              *)
(*                                                                         *)
(* ScreenIsHistory speaks of a client whose last history has begun to come *)
(* in.  Following says what leads there: the history asked for last is     *)
(* that of the channel in view, and once the server has answered it what   *)
(* is coming up is what is stored, from the last start frame on.  It takes *)
(* Posted: a message that waits at the server is nowhere else, so that the *)
(* one that is handled is new on every screen and in the table.            *)
(***************************************************************************)
EXTENDS Chat, Conversations_proofs

PacketsOf(M) == [kind : {"list"}] \cup [kind : {"start"}] \cup [kind : {"message"}, msg : M]

(* The messages that have been typed and do not wait to be handled.        *)
Known == {m \in Messages : m.n <= posts} \ Waiting(Clients, up)

(* What is in the table, on a screen or on its way to one is known.        *)
Posted ==
  /\ WaitOnce(Clients, up)
  /\ \A m \in Waiting(Clients, up) : m.n <= posts
  /\ saved \in Seq(Known)
  /\ down \in [Clients -> Seq(PacketsOf(Known))]
  /\ shown \in [Clients -> [ChannelNumbers -> Seq(Known)]]

NoListDue(c) == ~Has(up[c], "list") /\ ~Has(down[c], "list")

(* The history asked for last is that of channel ch. *)
LastFits(q, ch) ==
  \A k \in DOMAIN q :
    /\ q[k].kind = "history"
    /\ \A j \in DOMAIN q : k < j => q[j].kind # "history"
    => q[k].ch = ch

(* What is coming up is the history, from the last start frame on if one   *)
(* is on its way.                                                          *)
HistoryComes(c) ==
  IF Has(down[c], "start")
    THEN Rows(c, Screen(<<>>, down[c])) = Stored(view[c])
    ELSE /\ IsPrefix(Rows(c, OnScreen(c)), Stored(view[c]))
         /\ Len(OnScreen(c)) < MaxMessages => Rows(c, ComingUp(c)) = Stored(view[c])

Follows(c) ==
  view[c] # 0 /\ NoListDue(c) =>
    /\ LastFits(up[c], view[c])
    /\ ~Has(up[c], "history") => HistoryComes(c)

Following == \A c \in Clients : Follows(c)

-----------------------------------------------------------------------------
(* Type correctness. *)

LEMMA MessagesAre ==
  ASSUME ChatAssumption
  PROVE  /\ \A n \in 1 .. MaxPosts, ch \in ChannelNumbers : [n |-> n, ch |-> ch] \in Messages
         /\ \A ch \in ChannelNumbers : NextChannel(ch) \in ChannelNumbers
         /\ 1 \in ChannelNumbers /\ 0 \notin ChannelNumbers
         /\ \A m \in Messages : m.n \in Nat
  BY DEF ChatAssumption, Messages, ChannelNumbers, NextChannel

LEMMA RequestsAre ==
  /\ [kind |-> "list"] \in Requests
  /\ \A ch \in ChannelNumbers : [kind |-> "history", ch |-> ch] \in Requests
  /\ \A m \in Messages : [kind |-> "post", msg |-> m] \in Requests
  /\ \A r \in Requests : r.kind \in {"list", "history", "post"}
  /\ \A r \in Requests : r.kind = "history" => r.ch \in ChannelNumbers
  /\ \A r \in Requests : r.kind = "post" => r.msg \in Messages
  BY DEF Requests

LEMMA PacketsAre ==
  ASSUME NEW M
  PROVE  /\ [kind |-> "list"] \in PacketsOf(M) /\ [kind |-> "start"] \in PacketsOf(M)
         /\ \A m \in M : AsPacket(m) \in PacketsOf(M)
         /\ [kind : {"message"}, msg : M] \subseteq PacketsOf(M)
         /\ \A p \in PacketsOf(M) : p.kind \in {"list", "start", "message"}
         /\ \A p \in PacketsOf(M) : p.kind = "message" => p.msg \in M
         /\ \A N : M \subseteq N => PacketsOf(M) \subseteq PacketsOf(N)
  BY DEF PacketsOf, AsPacket

LEMMA KeepTyped ==
  ASSUME ChatAssumption, NEW T, NEW s \in Seq(T), NEW m \in T
  PROVE  /\ Keep(s, m) \in Seq(T)
         /\ Len(s) <= MaxMessages => Len(Keep(s, m)) <= MaxMessages
  <1>1. Append(s, m) \in Seq(T) /\ Len(Append(s, m)) = Len(s) + 1 /\ Len(s) \in Nat
      BY OneAdded
  <1>2. MaxMessages \in Nat
      BY DEF ChatAssumption
  <1>3. QED
      BY <1>1, <1>2 DEF Keep

LEMMA StoredTyped ==
  ASSUME NEW T, saved \in Seq(T), NEW ch
  PROVE  Stored(ch) \in Seq(T) /\ AsPackets(Stored(ch)) \in Seq([kind : {"message"}, msg : T])
  <1>1. Stored(ch) \in Seq(T)
      BY OnlyIn DEF Stored
  <1>2. QED
      BY <1>1, PacketsTyped

(* The keyboard. *)
LEMMA KeyTyped ==
  ASSUME ChatAssumption, TypeOK, NEW c \in Clients, Key(c)
  PROVE  TypeOK'
  <1>1. up \in [Clients -> Seq(Requests)] /\ view \in [Clients -> 0 .. Channels]
      BY DEF TypeOK
  <1>2. view[c] \in 0 .. Channels /\ (view[c] # 0 => view[c] \in ChannelNumbers)
        /\ \A ch \in ChannelNumbers : ch \in 0 .. Channels
      BY <1>1 DEF ChatAssumption, ChannelNumbers
  <1>3. ASSUME NEW r \in Requests, Request(c, r)
        PROVE  up' \in [Clients -> Seq(Requests)]
      BY <1>1, <1>3, Queues DEF Request
  <1>4. ASSUME EnterServer(c)
        PROVE  TypeOK'
    <2>1. up' \in [Clients -> Seq(Requests)]
        BY <1>3, <1>4, RequestsAre DEF EnterServer
    <2>2. view' \in [Clients -> 0 .. Channels]
        BY <1>1, <1>2, <1>4, MessagesAre DEF EnterServer
    <2>3. QED
        BY <1>4, <2>1, <2>2 DEF EnterServer, TypeOK
  <1>5. ASSUME SwitchChannel(c)
        PROVE  TypeOK'
    <2>1. view[c] \in ChannelNumbers /\ NextChannel(view[c]) \in ChannelNumbers
        BY <1>2, <1>5, MessagesAre DEF SwitchChannel
    <2>2. [kind |-> "history", ch |-> NextChannel(view[c])] \in Requests
        BY <2>1, RequestsAre
    <2>3. up' \in [Clients -> Seq(Requests)]
        BY <1>3, <1>5, <2>2 DEF SwitchChannel
    <2>4. view' \in [Clients -> 0 .. Channels]
        BY <1>1, <1>2, <1>5, <2>1 DEF SwitchChannel
    <2>5. QED
        BY <1>5, <2>3, <2>4 DEF SwitchChannel, TypeOK
  <1>6. ASSUME Post(c)
        PROVE  TypeOK'
    <2>1. posts' \in 0 .. MaxPosts /\ posts + 1 \in 1 .. MaxPosts
        BY <1>6 DEF Post, TypeOK, ChatAssumption
    <2>2. [kind |-> "post", msg |-> [n |-> posts + 1, ch |-> view[c]]] \in Requests
        BY <1>2, <1>6, <2>1, MessagesAre, RequestsAre DEF Post
    <2>3. up' \in [Clients -> Seq(Requests)]
        BY <1>3, <1>6, <2>2 DEF Post
    <2>4. QED
        BY <1>6, <2>1, <2>3 DEF Post, TypeOK
  <1>7. QED
      BY <1>4, <1>5, <1>6 DEF Key

(* The packets of a history. *)
HistoryFrames(ch) == <<[kind |-> "start"]>> \o AsPackets(Stored(ch))

(* What the server sends, of messages of M that are in the table or in the *)
(* request it handles.                                                     *)
LEMMA HandleSends ==
  ASSUME TypeOK, NEW c \in Clients, Handle(c), NEW M, saved \in Seq(M),
         down \in [Clients -> Seq(PacketsOf(M))], Head(up[c]).kind = "post" => Head(up[c]).msg \in M
  PROVE  saved' \in Seq(M) /\ down' \in [Clients -> Seq(PacketsOf(M))]
  <1>1. ASSUME HandlePost(c)
        PROVE  saved' \in Seq(M) /\ down' \in [Clients -> Seq(PacketsOf(M))]
    <2>1. Head(up[c]).msg \in M /\ AsPacket(Head(up[c]).msg) \in PacketsOf(M)
        BY <1>1, PacketsAre DEF HandlePost, Asks
    <2>2. saved' \in Seq(M)
        BY <1>1, <2>1 DEF HandlePost
    <2>3. down' \in [Clients -> Seq(PacketsOf(M))]
        BY <1>1, <2>1 DEF HandlePost, Broadcast
    <2>4. QED
        BY <2>2, <2>3
  <1>2. ASSUME HandleHistory(c)
        PROVE  saved' \in Seq(M) /\ down' \in [Clients -> Seq(PacketsOf(M))]
    <2> DEFINE rows == AsPackets(Stored(Head(up[c]).ch))
               P == PacketsOf(M)
               first == [kind |-> "start"]
    <2>1. rows \in Seq(P) /\ first \in P
      <3>1. rows \in Seq([kind : {"message"}, msg : M])
          BY StoredTyped
      <3>2. [kind : {"message"}, msg : M] \subseteq P /\ first \in P
          BY PacketsAre
      <3>3. QED
          BY <3>1, <3>2, SeqMonotonic
    <2>2. down' = [down EXCEPT ![c] = (@ \o <<first>>) \o rows] /\ saved' = saved
        BY <1>2 DEF HandleHistory
    <2> HIDE DEF rows, P, first
    <2>3. down[c] \in Seq(P)
        BY DEF P
    <2>4. <<first>> \in Seq(P)
        BY <2>1
    <2>5. (down[c] \o <<first>>) \o rows \in Seq(P)
        BY <2>1, <2>3, <2>4
    <2>6. QED
        BY <2>2, <2>5 DEF P
  <1>3. ASSUME HandleList(c)
        PROVE  saved' \in Seq(M) /\ down' \in [Clients -> Seq(PacketsOf(M))]
      BY <1>3, PacketsAre, Queues DEF HandleList
  <1>4. QED
      BY <1>1, <1>2, <1>3 DEF Handle

LEMMA HandleTyped ==
  ASSUME TypeOK, NEW c \in Clients, Handle(c)
  PROVE  TypeOK'
  <1>1. up \in [Clients -> Seq(Requests)] /\ up[c] # <<>> /\ up' = Answered(c)
        /\ UNCHANGED <<posts, view, shown>>
      BY DEF TypeOK, Handle, HandlePost, HandleHistory, HandleList, Asks
  <1>2. up' \in [Clients -> Seq(Requests)] /\ Head(up[c]) \in Requests
      BY <1>1, Queues DEF Answered
  <1>3. PacketsOf(Messages) = Packets
      BY DEF PacketsOf, Packets
  <1>4. saved' \in Seq(Messages) /\ down' \in [Clients -> Seq(Packets)]
    <2>1. saved \in Seq(Messages) /\ down \in [Clients -> Seq(PacketsOf(Messages))]
        BY <1>3 DEF TypeOK
    <2>2. Head(up[c]).kind = "post" => Head(up[c]).msg \in Messages
        BY <1>2, RequestsAre
    <2>3. QED
        BY <1>3, <2>1, <2>2, HandleSends
  <1>5. QED
      BY <1>1, <1>2, <1>4 DEF TypeOK

(* What a client shows of messages of M that it is sent.                   *)
LEMMA ReceiveShows ==
  ASSUME ChatAssumption, TypeOK, NEW c \in Clients, Receive(c), NEW M,
         down \in [Clients -> Seq(PacketsOf(M))],
         shown \in [Clients -> [ChannelNumbers -> Seq(M)]]
  PROVE  /\ down' \in [Clients -> Seq(PacketsOf(M))]
         /\ shown' \in [Clients -> [ChannelNumbers -> Seq(M)]]
         /\ \A d \in Clients, ch \in ChannelNumbers : Len(shown'[d][ch]) <= MaxMessages
  <1>1. down[c] # <<>> /\ down' = Taken(c)
      BY DEF Receive, ReceiveList, ReceiveStart, ReceiveMessage, Gets
  <1>2. down' \in [Clients -> Seq(PacketsOf(M))] /\ Head(down[c]) \in PacketsOf(M)
      BY <1>1, Queues DEF Taken
  <1>3. view[c] # 0 => view[c] \in ChannelNumbers
      BY DEF TypeOK, ChatAssumption, ChannelNumbers
  <1>4. \A d \in Clients, ch \in ChannelNumbers : Len(shown[d][ch]) <= MaxMessages
      BY DEF TypeOK
  <1>5. Len(<<>>) <= MaxMessages /\ <<>> \in Seq(M) /\ NothingShown \in [ChannelNumbers -> Seq(M)]
        /\ \A ch \in ChannelNumbers : NothingShown[ch] = <<>>
      BY DEF ChatAssumption, NothingShown
  <1>6. ASSUME ReceiveList(c)
        PROVE  /\ shown' \in [Clients -> [ChannelNumbers -> Seq(M)]]
               /\ \A d \in Clients, ch \in ChannelNumbers : Len(shown'[d][ch]) <= MaxMessages
    <2>1. shown' = [shown EXCEPT ![c] = NothingShown]
        BY <1>6 DEF ReceiveList
    <2>2. shown' \in [Clients -> [ChannelNumbers -> Seq(M)]]
        BY <1>5, <2>1
    <2>3. \A d \in Clients : shown'[d] = IF d = c THEN NothingShown ELSE shown[d]
        BY <2>1
    <2>4. QED
        BY <1>4, <1>5, <2>2, <2>3
  <1>7. ASSUME NEW s \in Seq(M), Len(s) <= MaxMessages,
               shown' = IF view[c] = 0 THEN shown ELSE [shown EXCEPT ![c][view[c]] = s]
        PROVE  /\ shown' \in [Clients -> [ChannelNumbers -> Seq(M)]]
               /\ \A d \in Clients, ch \in ChannelNumbers : Len(shown'[d][ch]) <= MaxMessages
    <2>1. CASE view[c] = 0
        BY <1>4, <1>7, <2>1
    <2>2. CASE view[c] # 0
      <3>1. shown' = [shown EXCEPT ![c] = [shown[c] EXCEPT ![view[c]] = s]]
          BY <1>7, <2>2
      <3>2. [shown[c] EXCEPT ![view[c]] = s] \in [ChannelNumbers -> Seq(M)]
          OBVIOUS
      <3>3. shown' \in [Clients -> [ChannelNumbers -> Seq(M)]]
          BY <3>1, <3>2
      <3>4. \A d \in Clients, ch \in ChannelNumbers :
              shown'[d][ch] = IF d = c /\ ch = view[c] THEN s ELSE shown[d][ch]
          BY <3>1
      <3>5. QED
          BY <1>4, <1>7, <3>3, <3>4
    <2>3. QED
        BY <2>1, <2>2
  <1>8. ASSUME ReceiveStart(c)
        PROVE  /\ shown' \in [Clients -> [ChannelNumbers -> Seq(M)]]
               /\ \A d \in Clients, ch \in ChannelNumbers : Len(shown'[d][ch]) <= MaxMessages
      BY <1>5, <1>7, <1>8 DEF ReceiveStart
  <1>9. ASSUME ReceiveMessage(c)
        PROVE  /\ shown' \in [Clients -> [ChannelNumbers -> Seq(M)]]
               /\ \A d \in Clients, ch \in ChannelNumbers : Len(shown'[d][ch]) <= MaxMessages
    <2>1. CASE view[c] = 0
      <3>1. shown' = shown
          BY <1>9, <2>1 DEF ReceiveMessage
      <3>2. QED
          BY <1>4, <3>1
    <2>2. CASE view[c] # 0
      <3> DEFINE s == Keep(shown[c][view[c]], Head(down[c]).msg)
      <3>1. shown[c][view[c]] \in Seq(M) /\ Len(shown[c][view[c]]) <= MaxMessages
            /\ Head(down[c]).msg \in M
          BY <1>2, <1>3, <1>4, <1>9, <2>2, PacketsAre DEF ReceiveMessage, Gets
      <3>2. s \in Seq(M) /\ Len(s) <= MaxMessages
          BY <3>1, KeepTyped
      <3>3. shown' = [shown EXCEPT ![c][view[c]] = s]
          BY <1>9, <2>2 DEF ReceiveMessage
      <3> HIDE DEF s
      <3>4. QED
          BY <1>7, <2>2, <3>2, <3>3
    <2>3. QED
        BY <2>1, <2>2
  <1>10. QED
      BY <1>2, <1>6, <1>8, <1>9 DEF Receive

LEMMA ReceiveTyped ==
  ASSUME ChatAssumption, TypeOK, NEW c \in Clients, Receive(c)
  PROVE  TypeOK'
  <1>1. PacketsOf(Messages) = Packets
      BY DEF PacketsOf, Packets
  <1>2. down \in [Clients -> Seq(PacketsOf(Messages))] /\ shown \in [Clients -> [ChannelNumbers -> Seq(Messages)]]
      BY <1>1 DEF TypeOK
  <1>3. /\ down' \in [Clients -> Seq(Packets)] /\ shown' \in [Clients -> [ChannelNumbers -> Seq(Messages)]]
        /\ \A d \in Clients, ch \in ChannelNumbers : Len(shown'[d][ch]) <= MaxMessages
      BY <1>1, <1>2, ReceiveShows
  <1>4. up' \in [Clients -> Seq(Requests)] /\ view' \in [Clients -> 0 .. Channels]
        /\ UNCHANGED <<posts, saved>>
    <2>1. ASSUME ReceiveList(c)
          PROVE  up' \in [Clients -> Seq(Requests)] /\ view' \in [Clients -> 0 .. Channels]
                 /\ UNCHANGED <<posts, saved>>
      <3> DEFINE ch == IF view[c] = 0 THEN 1 ELSE view[c]
      <3>1. ch \in ChannelNumbers /\ ch \in 0 .. Channels
          BY MessagesAre DEF TypeOK, ChatAssumption, ChannelNumbers
      <3>2. Request(c, [kind |-> "history", ch |-> ch]) /\ view' = [view EXCEPT ![c] = ch]
            /\ UNCHANGED <<posts, saved>>
          BY <2>1 DEF ReceiveList
      <3> HIDE DEF ch
      <3>3. [kind |-> "history", ch |-> ch] \in Requests
          BY <3>1, RequestsAre
      <3>4. up' \in [Clients -> Seq(Requests)]
          BY <3>2, <3>3, Queues DEF Request, TypeOK
      <3>5. QED
          BY <3>1, <3>2, <3>4 DEF TypeOK
    <2>2. ASSUME ReceiveStart(c) \/ ReceiveMessage(c)
          PROVE  UNCHANGED <<posts, saved, up, view>>
        BY <2>2 DEF ReceiveStart, ReceiveMessage
    <2>3. QED
        BY <2>1, <2>2 DEF Receive, TypeOK
  <1>5. QED
      BY <1>3, <1>4 DEF TypeOK

LEMMA RestartTyped ==
  ASSUME ChatAssumption, TypeOK, NEW c \in Clients, Restart(c)
  PROVE  TypeOK'
  <1>1. up' \in [Clients -> Seq(Requests)] /\ down' \in [Clients -> Seq(Packets)]
      BY Queues DEF Restart, TypeOK
  <1>2. /\ shown' \in [Clients -> [ChannelNumbers -> Seq(Messages)]]
        /\ \A d \in Clients : shown'[d] = IF d = c THEN NothingShown ELSE shown[d]
        /\ \A ch \in ChannelNumbers : NothingShown[ch] = <<>>
      BY DEF Restart, TypeOK, NothingShown
  <1>3. \A d \in Clients, ch \in ChannelNumbers : Len(shown'[d][ch]) <= MaxMessages
    <2>1. Len(<<>>) <= MaxMessages
        BY DEF ChatAssumption
    <2>2. QED
        BY <1>2, <2>1 DEF TypeOK
  <1>4. view' \in [Clients -> 0 .. Channels] /\ UNCHANGED <<posts, saved>>
      BY DEF Restart, TypeOK, ChatAssumption
  <1>5. QED
      BY <1>1, <1>2, <1>3, <1>4 DEF TypeOK

LEMMA InitTyped ==
  ASSUME ChatAssumption, Init
  PROVE  TypeOK
  <1>1. \A T : <<>> \in Seq(T)
      BY EmptySeq
  <1>2. Len(<<>>) <= MaxMessages /\ 0 \in 0 .. MaxPosts /\ 0 \in 0 .. Channels
      BY DEF ChatAssumption
  <1>3. QED
      BY <1>1, <1>2 DEF Init, TypeOK, NothingShown

(* What is stored, on its way and on the screens stays of its type, and no *)
(* client keeps more messages of a channel than it has room for.           *)
THEOREM Typing == Spec => []TypeOK
  <1>1. Init => TypeOK
      BY ChatAssumption, InitTyped
  <1>2. TypeOK /\ [Next]_vars => TypeOK'
    <2> SUFFICES ASSUME TypeOK, [Next]_vars
                 PROVE  TypeOK'
        OBVIOUS
    <2>1. CASE UNCHANGED vars
        BY <2>1 DEF TypeOK, vars
    <2>2. CASE Next
        BY <2>2, ChatAssumption, KeyTyped, HandleTyped, ReceiveTyped, RestartTyped DEF Next
    <2>3. QED
        BY <2>1, <2>2
  <1>3. QED
      BY <1>1, <1>2, PTL DEF Spec

-----------------------------------------------------------------------------
(* A message that waits is nowhere else. *)

LEMMA Wider ==
  ASSUME NEW M, NEW N, M \subseteq N
  PROVE  /\ Seq(M) \subseteq Seq(N)
         /\ [Clients -> Seq(PacketsOf(M))] \subseteq [Clients -> Seq(PacketsOf(N))]
         /\ [Clients -> [ChannelNumbers -> Seq(M)]] \subseteq [Clients -> [ChannelNumbers -> Seq(N)]]
  <1>1. Seq(M) \subseteq Seq(N)
      BY SeqMonotonic
  <1>2. Seq(PacketsOf(M)) \subseteq Seq(PacketsOf(N))
      BY PacketsAre, SeqMonotonic
  <1>3. [ChannelNumbers -> Seq(M)] \subseteq [ChannelNumbers -> Seq(N)]
      BY <1>1
  <1>4. QED
      BY <1>1, <1>2, <1>3

(* Whatever is known stays known, while requests are added and answered.   *)
LEMMA KnownStays ==
  ASSUME ChatAssumption, TypeOK, Posted, posts' = posts, Waiting(Clients, up') \subseteq Waiting(Clients, up)
  PROVE  /\ Known \subseteq Known'
         /\ \A m \in Waiting(Clients, up') : m.n <= posts'
         /\ \A m \in Waiting(Clients, up) \ Waiting(Clients, up') : m \in Messages => m \in Known'
  BY DEF Known, Posted

LEMMA RequestPosted ==
  ASSUME ChatAssumption, TypeOK, Posted, NEW c \in Clients, NEW r \in Requests, Request(c, r),
         r.kind # "post", posts' = posts
  PROVE  /\ WaitOnce(Clients, up') /\ Known \subseteq Known'
         /\ \A m \in Waiting(Clients, up') : m.n <= posts'
  <1>1. /\ up[c] \in Seq(Requests)
        /\ up'[c] = Append(up[c], r) /\ \A d \in Clients : d # c => up'[d] = up[d]
      BY DEF Request, TypeOK
  <1>2. WaitOnce(Clients, up)
      BY DEF Posted
  <1> DEFINE X == IF r.kind = "post" THEN {r.msg} ELSE {}
  <1>3. WaitOnce(Clients, up') /\ Waiting(Clients, up') = Waiting(Clients, up) \cup X
      BY <1>1, <1>2, WaitAdd
  <1>4. X = {}
      OBVIOUS
  <1>5. Waiting(Clients, up') \subseteq Waiting(Clients, up)
      BY <1>3, <1>4
  <1>6. QED
      BY <1>3, <1>5, KnownStays

LEMMA KeyPosted ==
  ASSUME ChatAssumption, TypeOK, Posted, NEW c \in Clients, Key(c)
  PROVE  Posted'
  <1>1. UNCHANGED <<saved, down, shown>>
      BY DEF Key, EnterServer, SwitchChannel, Post
  <1>2. view[c] # 0 => view[c] \in ChannelNumbers
      BY DEF TypeOK, ChatAssumption, ChannelNumbers
  <1>3. /\ WaitOnce(Clients, up') /\ Known \subseteq Known'
        /\ \A m \in Waiting(Clients, up') : m.n <= posts'
    <2>1. CASE EnterServer(c)
      <3>1. Request(c, [kind |-> "list"]) /\ posts' = posts
          BY <2>1 DEF EnterServer
      <3>2. QED
          BY <3>1, RequestPosted, RequestsAre
    <2>2. CASE SwitchChannel(c)
      <3>1. NextChannel(view[c]) \in ChannelNumbers
          BY <1>2, <2>2, MessagesAre DEF SwitchChannel
      <3>2. Request(c, [kind |-> "history", ch |-> NextChannel(view[c])]) /\ posts' = posts
          BY <2>2 DEF SwitchChannel
      <3>3. [kind |-> "history", ch |-> NextChannel(view[c])] \in Requests
          BY <3>1, RequestsAre
      <3>4. QED
          BY <3>2, <3>3, RequestPosted
    <2>3. CASE Post(c)
      <3> DEFINE m == [n |-> posts + 1, ch |-> view[c]]
                 r == [kind |-> "post", msg |-> m]
      <3>1. posts \in Nat /\ posts' = posts + 1 /\ posts + 1 \in 1 .. MaxPosts /\ view[c] \in ChannelNumbers
          BY <1>2, <2>3 DEF Post, TypeOK, ChatAssumption
      <3>2. m \in Messages /\ r \in Requests /\ r.kind = "post" /\ r.msg = m /\ m.n = posts + 1
          BY <3>1, MessagesAre, RequestsAre
      <3>3. /\ up[c] \in Seq(Requests)
            /\ up'[c] = Append(up[c], r) /\ \A d \in Clients : d # c => up'[d] = up[d]
          BY <2>3 DEF Post, Request, TypeOK
      <3> HIDE DEF m, r
      <3>4. WaitOnce(Clients, up) /\ \A w \in Waiting(Clients, up) : w.n <= posts
          BY DEF Posted
      <3>5. m \notin Waiting(Clients, up)
          BY <3>1, <3>2, <3>4
      <3>6. WaitOnce(Clients, up') /\ Waiting(Clients, up') = Waiting(Clients, up) \cup {m}
          BY <3>2, <3>3, <3>4, <3>5, WaitAdd
      <3>7. \A w \in Messages : w.n <= posts => w.n <= posts' /\ w # m
          BY <3>1, <3>2, MessagesAre
      <3>8. Known \subseteq Known'
          BY <3>6, <3>7 DEF Known
      <3>9. \A w \in Waiting(Clients, up) : w.n <= posts'
        <4>1. Waiting(Clients, up) \subseteq Messages
            BY RequestsAre DEF Waiting, Posts, TypeOK
        <4>2. QED
            BY <3>4, <3>7, <4>1
      <3>10. m.n <= posts'
          BY <3>1, <3>2
      <3>11. QED
          BY <3>6, <3>8, <3>9, <3>10
    <2>4. QED
        BY <2>1, <2>2, <2>3 DEF Key
  <1>4. QED
      BY <1>1, <1>3, Wider DEF Posted

LEMMA HandlePosted ==
  ASSUME ChatAssumption, TypeOK, Posted, NEW c \in Clients, Handle(c)
  PROVE  Posted'
  <1>1. /\ up[c] \in Seq(Requests) /\ up[c] # <<>> /\ WaitOnce(Clients, up)
        /\ up'[c] = Tail(up[c]) /\ \A d \in Clients : d # c => up'[d] = up[d]
        /\ UNCHANGED <<posts, view, shown>>
      BY DEF TypeOK, Posted, Handle, HandlePost, HandleHistory, HandleList, Asks, Answered
  <1>2. /\ WaitOnce(Clients, up') /\ Waiting(Clients, up') \subseteq Waiting(Clients, up)
        /\ Head(up[c]).kind = "post" =>
             Head(up[c]).msg \in Waiting(Clients, up) \ Waiting(Clients, up')
      BY <1>1, WaitTake
  <1>3. Known \subseteq Known' /\ \A m \in Waiting(Clients, up') : m.n <= posts'
      BY <1>1, <1>2, KnownStays
  <1>4. Head(up[c]).kind = "post" => Head(up[c]).msg \in Known'
    <2>1. Head(up[c]) \in Requests
        BY <1>1, Queues
    <2>2. Head(up[c]).kind = "post" => Head(up[c]).msg \in Messages
        BY <2>1, RequestsAre
    <2>3. QED
        BY <1>1, <1>2, <2>2, KnownStays
  <1> DEFINE M == Known'
  <1>5. /\ saved \in Seq(M) /\ down \in [Clients -> Seq(PacketsOf(M))]
        /\ shown \in [Clients -> [ChannelNumbers -> Seq(M)]]
      BY <1>3, Wider DEF Posted
  <1>6. saved' \in Seq(M) /\ down' \in [Clients -> Seq(PacketsOf(M))]
    <2>1. Head(up[c]).kind = "post" => Head(up[c]).msg \in M
        BY <1>4
    <2> HIDE DEF M
    <2>2. QED
        BY <1>5, <2>1, HandleSends
  <1>7. QED
      BY <1>1, <1>2, <1>3, <1>5, <1>6 DEF Posted

LEMMA ReceivePosted ==
  ASSUME ChatAssumption, TypeOK, Posted, NEW c \in Clients, Receive(c)
  PROVE  Posted'
  <1>1. UNCHANGED <<posts, saved>>
      BY DEF Receive, ReceiveList, ReceiveStart, ReceiveMessage
  <1>2. /\ WaitOnce(Clients, up') /\ Known \subseteq Known'
        /\ \A m \in Waiting(Clients, up') : m.n <= posts'
    <2>1. ASSUME ReceiveList(c)
          PROVE  /\ WaitOnce(Clients, up') /\ Known \subseteq Known'
                 /\ \A m \in Waiting(Clients, up') : m.n <= posts'
      <3> DEFINE ch == IF view[c] = 0 THEN 1 ELSE view[c]
                 r == [kind |-> "history", ch |-> ch]
      <3>1. ch \in ChannelNumbers
          BY MessagesAre DEF TypeOK, ChatAssumption, ChannelNumbers
      <3>2. Request(c, r)
          BY <2>1 DEF ReceiveList
      <3>3. r \in Requests /\ r.kind # "post"
        <4> HIDE DEF ch
        <4>1. QED
            BY <3>1, RequestsAre
      <3> HIDE DEF r
      <3>4. QED
          BY <1>1, <3>2, <3>3, RequestPosted
    <2>2. ASSUME up' = up
          PROVE  /\ WaitOnce(Clients, up') /\ Known \subseteq Known'
                 /\ \A m \in Waiting(Clients, up') : m.n <= posts'
        BY <1>1, <2>2, KnownStays DEF Posted
    <2>3. QED
        BY <2>1, <2>2 DEF Receive, ReceiveStart, ReceiveMessage
  <1> DEFINE M == Known'
  <1>3. /\ saved \in Seq(M) /\ down \in [Clients -> Seq(PacketsOf(M))]
        /\ shown \in [Clients -> [ChannelNumbers -> Seq(M)]]
      BY <1>2, Wider DEF Posted
  <1>4. down' \in [Clients -> Seq(PacketsOf(M))] /\ shown' \in [Clients -> [ChannelNumbers -> Seq(M)]]
    <2> HIDE DEF M
    <2>1. QED
        BY <1>3, ReceiveShows
  <1>5. QED
      BY <1>1, <1>2, <1>3, <1>4 DEF Posted

LEMMA RestartPosted ==
  ASSUME ChatAssumption, TypeOK, Posted, NEW c \in Clients, Restart(c)
  PROVE  Posted'
  <1>1. /\ up' = [up EXCEPT ![c] = <<>>] /\ down' = [down EXCEPT ![c] = <<>>]
        /\ shown' = [shown EXCEPT ![c] = NothingShown] /\ UNCHANGED <<posts, saved>>
      BY DEF Restart
  <1>2. WaitOnce(Clients, up) /\ up'[c] = <<>> /\ \A d \in Clients : d # c => up'[d] = up[d]
      BY <1>1 DEF Posted, TypeOK
  <1>3. WaitOnce(Clients, up') /\ Waiting(Clients, up') \subseteq Waiting(Clients, up)
      BY <1>2, WaitDrop
  <1>4. Known \subseteq Known' /\ \A m \in Waiting(Clients, up') : m.n <= posts'
      BY <1>1, <1>3, KnownStays
  <1> DEFINE M == Known'
  <1>5. /\ saved \in Seq(M) /\ down \in [Clients -> Seq(PacketsOf(M))]
        /\ shown \in [Clients -> [ChannelNumbers -> Seq(M)]]
      BY <1>4, Wider DEF Posted
  <1>6. down' \in [Clients -> Seq(PacketsOf(M))] /\ shown' \in [Clients -> [ChannelNumbers -> Seq(M)]]
    <2> HIDE DEF M
    <2>1. <<>> \in Seq(M)
        BY EmptySeq
    <2>2. NothingShown \in [ChannelNumbers -> Seq(M)]
        BY <2>1 DEF NothingShown
    <2>3. QED
        BY <1>1, <1>5, <2>2, Queues
  <1>7. QED
      BY <1>1, <1>3, <1>4, <1>5, <1>6 DEF Posted

LEMMA InitPosted ==
  ASSUME Init
  PROVE  Posted
  <1>1. \A T : <<>> \in Seq(T)
      BY EmptySeq
  <1>2. WaitOnce(Clients, up) /\ Waiting(Clients, up) = {}
      BY DEF Init, WaitOnce, OnceEach, Waiting, Posts
  <1>3. QED
      BY <1>1, <1>2 DEF Init, Posted, NothingShown

-----------------------------------------------------------------------------
(* What is due. *)

LEMMA FitsAppend ==
  ASSUME NEW R, NEW q \in Seq(R), NEW r \in R, NEW ch,
         r.kind = "history" => r.ch = ch, r.kind # "history" => LastFits(q, ch)
  PROVE  LastFits(Append(q, r), ch)
  <1> DEFINE v == Append(q, r)
  <1>1. /\ DOMAIN q = 1 .. Len(q) /\ DOMAIN v = 1 .. Len(q) + 1
        /\ Len(q) \in Nat /\ v[Len(q) + 1] = r
        /\ \A k \in 1 .. Len(q) : v[k] = q[k] /\ k \in 1 .. Len(q) + 1
        /\ \A k \in 1 .. Len(q) + 1 : k \in 1 .. Len(q) \/ k = Len(q) + 1
        /\ Len(q) + 1 \in 1 .. Len(q) + 1
    <2>1. v \in Seq(R) /\ Len(v) = Len(q) + 1
        BY OneAdded
    <2>2. DOMAIN q = 1 .. Len(q) /\ DOMAIN v = 1 .. Len(v)
        BY <2>1, InToSet
    <2>3. QED
        BY <2>1, <2>2, OneAdded
  <1> HIDE DEF v
  <1>2. ASSUME NEW k \in DOMAIN v, v[k].kind = "history",
               \A j \in DOMAIN v : k < j => v[j].kind # "history"
        PROVE  v[k].ch = ch
    <2>1. CASE k = Len(q) + 1
        BY <1>1, <1>2, <2>1
    <2>2. CASE k \in 1 .. Len(q)
      <3>1. k < Len(q) + 1
          BY <1>1, <2>2
      <3>2. r.kind # "history"
          BY <1>1, <1>2, <3>1
      <3>3. q[k].kind = "history" /\ \A j \in DOMAIN q : k < j => q[j].kind # "history"
          BY <1>1, <1>2, <2>2
      <3>4. q[k].ch = ch
          BY <1>1, <2>2, <3>2, <3>3 DEF LastFits
      <3>5. QED
          BY <1>1, <2>2, <3>4
    <2>3. QED
        BY <1>1, <2>1, <2>2
  <1>3. QED
      BY <1>2 DEF LastFits, v

LEMMA FitsTail ==
  ASSUME NEW R, NEW q \in Seq(R), q # <<>>, NEW ch, LastFits(q, ch)
  PROVE  /\ LastFits(Tail(q), ch)
         /\ Head(q).kind = "history" /\ ~Has(Tail(q), "history") => Head(q).ch = ch
  <1> DEFINE t == Tail(q)
  <1>1. /\ DOMAIN q = 1 .. Len(q) /\ DOMAIN t = 1 .. Len(t)
        /\ Len(q) \in Nat \ {0} /\ Head(q) = q[1]
        /\ \A k \in 1 .. Len(t) : t[k] = q[k + 1] /\ k + 1 \in 1 .. Len(q)
        /\ \A k \in 2 .. Len(q) : k - 1 \in 1 .. Len(t) /\ q[k] = t[k - 1]
    <2>1. t \in Seq(R)
        BY FirstTaken
    <2>2. DOMAIN q = 1 .. Len(q) /\ DOMAIN t = 1 .. Len(t)
        BY <2>1, InToSet
    <2>3. QED
        BY <2>2, FirstTaken
  <1> HIDE DEF t
  <1>2. ASSUME NEW k \in DOMAIN t, t[k].kind = "history",
               \A j \in DOMAIN t : k < j => t[j].kind # "history"
        PROVE  t[k].ch = ch
    <2>1. ASSUME NEW j \in DOMAIN q, k + 1 < j
          PROVE  q[j].kind # "history"
      <3>1. j \in 2 .. Len(q) /\ k < j - 1
          BY <1>1, <2>1
      <3>2. QED
          BY <1>1, <1>2, <3>1
    <2>2. k + 1 \in DOMAIN q /\ q[k + 1].kind = "history" /\ q[k + 1] = t[k]
        BY <1>1, <1>2
    <2>3. QED
        BY <2>1, <2>2 DEF LastFits
  <1>3. ASSUME Head(q).kind = "history", ~Has(t, "history")
        PROVE  Head(q).ch = ch
    <2>1. ASSUME NEW j \in DOMAIN q, 1 < j
          PROVE  q[j].kind # "history"
      <3>1. j \in 2 .. Len(q)
          BY <1>1, <2>1
      <3>2. QED
          BY <1>1, <1>3, <3>1 DEF Has
    <2>2. 1 \in DOMAIN q /\ q[1].kind = "history"
        BY <1>1, <1>3
    <2>3. QED
        BY <1>1, <2>1, <2>2 DEF LastFits
  <1>4. QED
      BY <1>2, <1>3 DEF LastFits, t

-----------------------------------------------------------------------------
(* The histories. *)

(* A client follows as long as nothing happens to it.                      *)
LEMMA Untouched ==
  ASSUME NEW c \in Clients, Follows(c), saved' = saved, up'[c] = up[c], down'[c] = down[c],
         view'[c] = view[c], shown'[c] = shown[c]
  PROVE  Follows(c)'
  BY DEF Follows, NoListDue, HistoryComes, Rows, OnScreen, ComingUp, Stored

LEMMA WhatComes ==
  ASSUME ChatAssumption, TypeOK, Posted, NEW c \in Clients, view[c] # 0
  PROVE  /\ view[c] \in ChannelNumbers
         /\ up[c] \in Seq(Requests) /\ saved \in Seq(Known) /\ down[c] \in Seq(PacketsOf(Known))
         /\ OnScreen(c) \in Seq(Known) /\ Screen(<<>>, down[c]) \in Seq(Known)
         /\ ComingUp(c) \in Seq(Known)
  <1>1. view[c] \in ChannelNumbers
      BY DEF TypeOK, ChatAssumption, ChannelNumbers
  <1>2. /\ up[c] \in Seq(Requests) /\ saved \in Seq(Known) /\ down[c] \in Seq(PacketsOf(Known))
        /\ shown[c][view[c]] \in Seq(Known)
      BY <1>1 DEF TypeOK, Posted
  <1>3. <<>> \in Seq(Known)
      BY EmptySeq
  <1>4. \A p \in PacketsOf(Known) : p.kind = "message" => p.msg \in Known
      BY PacketsAre
  <1>5. Screen(<<>>, down[c]) \in Seq(Known)
      BY <1>2, <1>3, <1>4, ScreenTyped
  <1>6. Screen(shown[c][view[c]], down[c]) \in Seq(Known)
      BY <1>2, <1>4, ScreenTyped
  <1>7. QED
      BY <1>1, <1>2, <1>5, <1>6 DEF OnScreen, ComingUp

(* A key asks for the list or for the history of the channel it shows.     *)
LEMMA KeyFollows ==
  ASSUME ChatAssumption, TypeOK, NEW c \in Clients, Follows(c), Key(c)
  PROVE  Follows(c)'
  <1>1. up[c] \in Seq(Requests) /\ view[c] \in 0 .. Channels /\ UNCHANGED <<saved, down, shown>>
      BY DEF TypeOK, Key, EnterServer, SwitchChannel, Post
  <1>2. ASSUME NEW r \in Requests, Request(c, r)
        PROVE  up'[c] = Append(up[c], r) /\ \A kind : Has(up'[c], kind) <=> Has(up[c], kind) \/ r.kind = kind
    <2>1. up'[c] = Append(up[c], r)
        BY <1>2 DEF Request, TypeOK
    <2>2. QED
        BY <1>1, <2>1, HasAppend
  <1>3. ASSUME EnterServer(c)
        PROVE  Follows(c)'
    <2>1. Has(up'[c], "list")
        BY <1>2, <1>3, RequestsAre DEF EnterServer
    <2>2. QED
        BY <2>1 DEF Follows, NoListDue
  <1>4. ASSUME SwitchChannel(c)
        PROVE  Follows(c)'
    <2> DEFINE r == [kind |-> "history", ch |-> NextChannel(view[c])]
    <2>1. view[c] \in ChannelNumbers
        BY <1>1, <1>4 DEF SwitchChannel, ChatAssumption, ChannelNumbers
    <2>2. r \in Requests /\ r.kind = "history" /\ r.ch = NextChannel(view[c])
        BY <2>1, MessagesAre, RequestsAre
    <2>3. Request(c, r) /\ view'[c] = r.ch
        BY <1>4 DEF SwitchChannel, TypeOK
    <2> HIDE DEF r
    <2>4. LastFits(Append(up[c], r), r.ch)
        BY <1>1, <2>2, FitsAppend
    <2>5. Has(up'[c], "history")
        BY <1>2, <2>2, <2>3
    <2>6. QED
        BY <1>2, <2>2, <2>3, <2>4, <2>5 DEF Follows
  <1>5. ASSUME Post(c)
        PROVE  Follows(c)'
    <2> DEFINE r == [kind |-> "post", msg |-> [n |-> posts + 1, ch |-> view[c]]]
    <2>1. posts + 1 \in 1 .. MaxPosts /\ view[c] \in ChannelNumbers
        BY <1>1, <1>5 DEF Post, TypeOK, ChatAssumption, ChannelNumbers
    <2>2. r \in Requests /\ r.kind = "post"
        BY <2>1, MessagesAre, RequestsAre
    <2>3. Request(c, r) /\ view' = view
        BY <1>5 DEF Post
    <2> HIDE DEF r
    <2>4. ASSUME LastFits(up[c], view[c])
          PROVE  LastFits(up'[c], view'[c])
      <3>1. LastFits(Append(up[c], r), view[c])
          BY <1>1, <2>2, <2>4, FitsAppend
      <3>2. QED
          BY <1>2, <2>2, <2>3, <3>1
    <2>5. (NoListDue(c)' => NoListDue(c)) /\ (~Has(up'[c], "history") => ~Has(up[c], "history"))
        BY <1>1, <1>2, <2>2, <2>3 DEF NoListDue
    <2>6. HistoryComes(c)' <=> HistoryComes(c)
        BY <1>1, <2>3 DEF HistoryComes, Rows, OnScreen, ComingUp, Stored
    <2>7. QED
        BY <2>3, <2>4, <2>5, <2>6 DEF Follows
  <1>6. QED
      BY <1>3, <1>4, <1>5 DEF Key

(* The requests that are left when the server has handled one.             *)
LEMMA RequestsLeft ==
  ASSUME TypeOK, NEW c \in Clients, NEW d \in Clients, up[d] # <<>>, up' = Answered(d)
  PROVE  /\ \A kind : Has(up'[c], kind) => Has(up[c], kind)
         /\ \A kind : Has(up[c], kind) => Has(up'[c], kind) \/ (c = d /\ Head(up[d]).kind = kind)
         /\ \A ch : LastFits(up[c], ch) => LastFits(up'[c], ch)
  <1>1. up[d] \in Seq(Requests) /\ up'[d] = Tail(up[d]) /\ (c # d => up'[c] = up[c])
      BY DEF TypeOK, Answered
  <1>2. \A kind : Has(up[d], kind) <=> Head(up[d]).kind = kind \/ Has(up'[d], kind)
      BY <1>1, HasTail
  <1>3. \A ch : LastFits(up[d], ch) => LastFits(up'[d], ch)
      BY <1>1, FitsTail
  <1>4. QED
      BY <1>1, <1>2, <1>3

(* A message is new to all screens and to the table: it is added to both,  *)
(* or is saved nowhere and counts for nothing.                             *)
LEMMA PostFollows ==
  ASSUME ChatAssumption, TypeOK, Posted, NEW c \in Clients, Follows(c), NEW d \in Clients, HandlePost(d)
  PROVE  Follows(c)'
  <1> DEFINE m == Head(up[d]).msg
             p == AsPacket(m)
             S == saved
  <1>1. SUFFICES ASSUME view'[c] # 0, NoListDue(c)'
                 PROVE  LastFits(up'[c], view'[c]) /\ (~Has(up'[c], "history") => HistoryComes(c)')
      BY DEF Follows
  <1>2. /\ up[d] # <<>> /\ Head(up[d]).kind = "post" /\ up' = Answered(d)
        /\ down'[c] = Append(down[c], p)
        /\ saved' = saved \/ saved' = Append(saved, m)
        /\ UNCHANGED <<view, shown>>
      BY DEF HandlePost, Asks, Broadcast
  <1>3. m \in Messages /\ m \notin Known
    <2>1. up[d] \in Seq(Requests) /\ WaitOnce(Clients, up)
        BY DEF TypeOK, Posted
    <2>2. Head(up[d]) \in Requests /\ Head(up[d]).msg \in Posts(up[d])
        BY <1>2, <2>1, FirstTaken, PostsTail
    <2>3. QED
        BY <1>2, <2>2, RequestsAre DEF Known, Waiting
  <1>4. view[c] # 0
      BY <1>1, <1>2
  <1> DEFINE X == OnScreen(c)
             Y == Screen(<<>>, down[c])
             Z == ComingUp(c)
             C == InChannel(view[c])
  <1>5. /\ S \in Seq(Messages) /\ X \in Seq(Messages) /\ Y \in Seq(Messages) /\ Z \in Seq(Messages)
        /\ m \notin ToSet(S) /\ m \notin ToSet(X) /\ m \notin ToSet(Y) /\ m \notin ToSet(Z)
    <2>1. S \in Seq(Known) /\ X \in Seq(Known) /\ Y \in Seq(Known) /\ Z \in Seq(Known)
        BY <1>4, WhatComes
    <2>2. Seq(Known) \subseteq Seq(Messages)
      <3>1. Known \subseteq Messages
          BY DEF Known
      <3>2. QED
          BY <3>1, SeqMonotonic
    <2> HIDE DEF S, X, Y, Z, m
    <2>3. ToSet(S) \subseteq Known /\ ToSet(X) \subseteq Known /\ ToSet(Y) \subseteq Known /\ ToSet(Z) \subseteq Known
        BY <2>1, ToSetIn
    <2>4. QED
        BY <1>3, <2>1, <2>2, <2>3
  <1>6. /\ down[c] \in Seq(PacketsOf(Known)) /\ down[c] \in Seq(Packets) /\ p \in Packets /\ p.kind = "message"
        /\ p.msg = m
    <2>1. p \in PacketsOf(Messages) /\ p.kind = "message" /\ p.msg = m
        BY <1>3, PacketsAre DEF AsPacket
    <2>2. PacketsOf(Messages) = Packets
        BY DEF PacketsOf, Packets
    <2>3. QED
        BY <1>4, <2>1, <2>2, WhatComes DEF TypeOK
  <1>7. \A kind : Has(down'[c], kind) <=> Has(down[c], kind) \/ kind = "message"
    <2> HIDE DEF p
    <2>1. QED
        BY <1>2, <1>6, HasAppend
  <1>8. Screen(<<>>, down'[c]) = Append(Y, m) /\ ComingUp(c)' = Append(Z, m)
    <2>1. \A s : Screen(s, down'[c]) = Played(Screen(s, down[c]), p)
      <3> HIDE DEF p
      <3>1. QED
          BY <1>2, <1>6, ScreenAppend
    <2>2. \A s : Played(s, p) = Append(s, m)
        BY <1>6 DEF Played
    <2>3. ComingUp(c)' = Screen(OnScreen(c), down'[c])
        BY <1>2 DEF ComingUp, OnScreen
    <2>4. QED
        BY <2>1, <2>2, <2>3 DEF ComingUp
  <1>9. NoListDue(c) /\ (~Has(up'[c], "history") => ~Has(up[c], "history"))
        /\ (LastFits(up[c], view[c]) => LastFits(up'[c], view'[c]))
      BY <1>1, <1>2, <1>7, RequestsLeft DEF NoListDue
  <1>10. ASSUME HistoryComes(c)
         PROVE  HistoryComes(c)'
    <2>1. /\ Stored(view[c]) = Only(S, C) /\ Stored(view[c])' = Only(saved', C)
          /\ \A x : Rows(c, x) = Only(x, C \cap ToSet(S))
          /\ \A x : Only(x, C \cap ToSet(saved')) = Rows(c, x)'
      BY <1>2 DEF Stored, Rows
    <2> HIDE DEF S, X, Y, Z, C, m, p
    <2>2. /\ Only(Y, C \cap ToSet(S)) = Only(S, C)
              => Only(Append(Y, m), C \cap ToSet(saved')) = Only(saved', C)
          /\ Only(Z, C \cap ToSet(S)) = Only(S, C)
              => Only(Append(Z, m), C \cap ToSet(saved')) = Only(saved', C)
          /\ IsPrefix(Only(X, C \cap ToSet(S)), Only(S, C))
              => IsPrefix(Only(X, C \cap ToSet(saved')), Only(saved', C))
      <3> DEFINE t == saved'
      <3>1. t = S \/ t = Append(S, m)
          BY <1>2 DEF S
      <3> HIDE DEF t
      <3>2. \A x \in {X, Y, Z} :
              /\ Only(x, C \cap ToSet(S)) = Only(S, C)
                   => Only(Append(x, m), C \cap ToSet(t)) = Only(t, C)
              /\ IsPrefix(Only(x, C \cap ToSet(S)), Only(S, C))
                   => IsPrefix(Only(x, C \cap ToSet(t)), Only(t, C))
        <4>1. ASSUME NEW x \in Seq(Messages), m \notin ToSet(x)
              PROVE  /\ Only(x, C \cap ToSet(S)) = Only(S, C)
                          => Only(Append(x, m), C \cap ToSet(t)) = Only(t, C)
                     /\ IsPrefix(Only(x, C \cap ToSet(S)), Only(S, C))
                          => IsPrefix(Only(x, C \cap ToSet(t)), Only(t, C))
          <5>1. S \in Seq(Messages) /\ m \in Messages /\ m \notin ToSet(S)
              BY <1>3, <1>5
          <5>2. CASE t = S
            <6>1. Only(Append(x, m), C \cap ToSet(S)) = Only(x, C \cap ToSet(S))
                BY <4>1, <5>1, NotSaved
            <6>2. QED
                BY <5>2, <6>1
          <5>3. CASE t = Append(S, m)
            <6>1. /\ Only(x, C \cap ToSet(S)) = Only(S, C)
                       => Only(Append(x, m), C \cap ToSet(Append(S, m))) = Only(Append(S, m), C)
                  /\ IsPrefix(Only(x, C \cap ToSet(S)), Only(S, C))
                       => IsPrefix(Only(x, C \cap ToSet(Append(S, m))), Only(Append(S, m), C))
                BY <4>1, <5>1, OneSaved
            <6>2. QED
                BY <5>3, <6>1
          <5>4. QED
              BY <3>1, <5>2, <5>3
        <4>2. QED
            BY <1>5, <4>1
      <3>3. QED
          BY <3>2 DEF t
    <2>3. CASE Has(down[c], "start")
      <3>1. Only(Y, C \cap ToSet(S)) = Only(S, C)
          BY <1>10, <2>1, <2>3 DEF HistoryComes, Y
      <3>2. Only(Append(Y, m), C \cap ToSet(saved')) = Only(saved', C)
          BY <2>2, <3>1
      <3>3. Has(down'[c], "start")
          BY <1>7, <2>3
      <3>4. QED
          BY <1>8, <2>1, <3>2, <3>3 DEF HistoryComes
    <2>4. CASE ~Has(down[c], "start")
      <3>1. ~Has(down'[c], "start")
          BY <1>7, <2>4
      <3>2. OnScreen(c)' = X
          BY <1>2 DEF OnScreen, X
      <3>3. IsPrefix(Only(X, C \cap ToSet(saved')), Only(saved', C))
          BY <1>10, <2>1, <2>2, <2>4 DEF HistoryComes, X
      <3>4. Len(X) < MaxMessages => Only(Append(Z, m), C \cap ToSet(saved')) = Only(saved', C)
          BY <1>10, <2>1, <2>2, <2>4 DEF HistoryComes, X, Z
      <3>5. QED
          BY <1>8, <2>1, <3>1, <3>2, <3>3, <3>4 DEF HistoryComes
    <2>5. QED
        BY <2>3, <2>4
  <1>11. QED
      BY <1>4, <1>9, <1>10 DEF Follows

(* The rows of the channel in view, or of one it was: another history is   *)
(* due then.                                                               *)
LEMMA HistoryFollows ==
  ASSUME ChatAssumption, TypeOK, Posted, NEW c \in Clients, Follows(c), HandleHistory(c)
  PROVE  Follows(c)'
  <1> DEFINE r == Head(up[c])
             first == [kind |-> "start"]
             rows == Stored(r.ch)
             P == PacketsOf(Known)
  <1>1. SUFFICES ASSUME view'[c] # 0, NoListDue(c)'
                 PROVE  LastFits(up'[c], view'[c]) /\ (~Has(up'[c], "history") => HistoryComes(c)')
      BY DEF Follows
  <1>2. /\ up[c] # <<>> /\ r.kind = "history" /\ up' = Answered(c) /\ up'[c] = Tail(up[c])
        /\ down'[c] = (down[c] \o <<first>>) \o AsPackets(rows)
        /\ UNCHANGED <<saved, view, shown>>
      BY DEF HandleHistory, Asks, Answered, TypeOK
  <1>3. /\ view[c] # 0 /\ down[c] \in Seq(P) /\ saved \in Seq(Known) /\ up[c] \in Seq(Requests)
      BY <1>1, <1>2, WhatComes
  <1>4. /\ rows \in Seq(Known) /\ AsPackets(rows) \in Seq(P) /\ first \in P
        /\ down[c] \o <<first>> = Append(down[c], first) /\ Append(down[c], first) \in Seq(P)
    <2>1. rows \in Seq(Known) /\ AsPackets(rows) \in Seq([kind : {"message"}, msg : Known])
        BY <1>3, StoredTyped
    <2>2. [kind : {"message"}, msg : Known] \subseteq P /\ first \in P
        BY PacketsAre
    <2>3. AsPackets(rows) \in Seq(P)
        BY <2>1, <2>2, SeqMonotonic
    <2> HIDE DEF P, first
    <2>4. down[c] \o <<first>> = Append(down[c], first) /\ Append(down[c], first) \in Seq(P)
        BY <1>3, <2>2
    <2>5. QED
        BY <2>1, <2>2, <2>3, <2>4
  <1> HIDE DEF P, rows
  <1>5. \A kind : Has(down'[c], kind) <=> Has(down[c], kind) \/ first.kind = kind \/ Has(AsPackets(rows), kind)
    <2> HIDE DEF first
    <2>1. \A kind : Has(Append(down[c], first), kind) <=> Has(down[c], kind) \/ first.kind = kind
        BY <1>3, <1>4, HasAppend
    <2>2. \A kind : Has(Append(down[c], first) \o AsPackets(rows), kind)
                      <=> Has(Append(down[c], first), kind) \/ Has(AsPackets(rows), kind)
        BY <1>4, HasJoin
    <2>3. QED
        BY <1>2, <1>4, <2>1, <2>2
  <1>6. NoListDue(c)
      BY <1>1, <1>2, <1>5, RequestsLeft DEF NoListDue
  <1>7. LastFits(up[c], view[c])
      BY <1>3, <1>6 DEF Follows
  <1>8. LastFits(up'[c], view'[c])
      BY <1>2, <1>7, RequestsLeft
  <1>9. ASSUME ~Has(up'[c], "history")
        PROVE  HistoryComes(c)'
    <2>1. r.ch = view[c]
        BY <1>2, <1>3, <1>7, <1>9, FitsTail
    <2>2. Screen(<<>>, down'[c]) = rows
      <3>1. Screen(<<>>, Append(down[c], first)) = <<>>
        <4>1. first.kind = "start"
            OBVIOUS
        <4> HIDE DEF first
        <4>2. Screen(<<>>, Append(down[c], first)) = Played(Screen(<<>>, down[c]), first)
            BY <1>3, <1>4, ScreenAppend
        <4>3. QED
            BY <4>1, <4>2 DEF Played
      <3> HIDE DEF first
      <3>2. Screen(<<>>, Append(down[c], first) \o AsPackets(rows))
              = Screen(Screen(<<>>, Append(down[c], first)), AsPackets(rows))
          BY <1>4, ScreenJoin
      <3>3. Screen(<<>>, AsPackets(rows)) = rows
          BY <1>4, ScreenRows
      <3>4. QED
          BY <1>2, <1>4, <3>1, <3>2, <3>3
    <2>3. Has(down'[c], "start")
        BY <1>5
    <2>4. Rows(c, rows) = Stored(view[c])
        BY <1>3, <2>1, OnlyAgain DEF Rows, Stored, rows
    <2>5. Stored(view[c])' = Stored(view[c])
        BY <1>2 DEF Stored
    <2>6. Rows(c, Screen(<<>>, down[c]))' = Rows(c, rows)
        BY <1>2, <2>2 DEF Rows
    <2>7. QED
        BY <2>3, <2>4, <2>5, <2>6 DEF HistoryComes
  <1>10. QED
      BY <1>8, <1>9

(* A list on its way makes another history due.                            *)
LEMMA ListFollows ==
  ASSUME TypeOK, NEW c \in Clients, HandleList(c)
  PROVE  Follows(c)'
  <1>1. down[c] \in Seq(Packets) /\ [kind |-> "list"] \in Packets
      BY DEF TypeOK, Packets
  <1>2. down'[c] = Append(down[c], [kind |-> "list"])
      BY DEF HandleList, TypeOK
  <1>3. Has(down'[c], "list")
      BY <1>1, <1>2, HasAppend
  <1>4. QED
      BY <1>3 DEF Follows, NoListDue

(* The first packet, and what is left to come.                             *)
LEMMA ComesNext ==
  ASSUME TypeOK, NEW c \in Clients, down[c] # <<>>, down' = Taken(c)
  PROVE  /\ down'[c] = Tail(down[c]) /\ down[c] \in Seq(Packets) /\ down'[c] \in Seq(Packets)
         /\ \A kind : Has(down[c], kind) <=> Head(down[c]).kind = kind \/ Has(down'[c], kind)
         /\ \A s : Screen(s, down[c]) = Screen(Played(s, Head(down[c])), down'[c])
  <1>1. down'[c] = Tail(down[c]) /\ down[c] \in Seq(Packets)
      BY DEF TypeOK, Taken
  <1>2. down'[c] \in Seq(Packets)
      BY <1>1, FirstTaken
  <1>3. \A kind : Has(down[c], kind) <=> Head(down[c]).kind = kind \/ Has(down'[c], kind)
      BY <1>1, HasTail
  <1>4. \A s : Screen(s, down[c]) = Screen(Played(s, Head(down[c])), down'[c])
      BY <1>1, ScreenFirst
  <1>5. QED
      BY <1>1, <1>2, <1>3, <1>4

LEMMA ReceiveListFollows ==
  ASSUME ChatAssumption, TypeOK, NEW c \in Clients, ReceiveList(c)
  PROVE  Follows(c)'
  <1> DEFINE ch == IF view[c] = 0 THEN 1 ELSE view[c]
             r == [kind |-> "history", ch |-> ch]
  <1>1. ch \in ChannelNumbers
      BY MessagesAre DEF TypeOK, ChatAssumption, ChannelNumbers
  <1>2. up[c] \in Seq(Requests) /\ up'[c] = Append(up[c], r) /\ view'[c] = ch
      BY DEF ReceiveList, Request, TypeOK
  <1>3. r \in Requests /\ r.kind = "history" /\ r.ch = ch
    <2> HIDE DEF ch
    <2>1. QED
        BY <1>1, RequestsAre
  <1> HIDE DEF ch, r
  <1>4. LastFits(Append(up[c], r), ch)
      BY <1>2, <1>3, FitsAppend
  <1>5. Has(Append(up[c], r), "history")
      BY <1>2, <1>3, HasAppend
  <1>6. QED
      BY <1>2, <1>4, <1>5 DEF Follows

LEMMA ReceiveStartFollows ==
  ASSUME ChatAssumption, TypeOK, Posted, NEW c \in Clients, Follows(c), ReceiveStart(c)
  PROVE  Follows(c)'
  <1>1. SUFFICES ASSUME view'[c] # 0, NoListDue(c)'
                 PROVE  LastFits(up'[c], view'[c]) /\ (~Has(up'[c], "history") => HistoryComes(c)')
      BY DEF Follows
  <1>2. /\ down[c] # <<>> /\ Head(down[c]).kind = "start" /\ down' = Taken(c)
        /\ UNCHANGED <<saved, up, view>> /\ view[c] # 0
      BY <1>1 DEF ReceiveStart, Gets
  <1>3. OnScreen(c)' = <<>>
    <2>1. shown' = [shown EXCEPT ![c][view[c]] = <<>>] /\ view[c] \in ChannelNumbers
        BY <1>2, WhatComes DEF ReceiveStart
    <2>2. shown'[c][view[c]] = <<>>
        BY <2>1 DEF TypeOK
    <2>3. QED
        BY <1>2, <2>2 DEF OnScreen
  <1>4. Has(down[c], "start") /\ (~Has(down'[c], "list") => ~Has(down[c], "list"))
      BY <1>2, ComesNext
  <1>5. LastFits(up[c], view[c]) /\ (~Has(up[c], "history") => HistoryComes(c))
      BY <1>1, <1>2, <1>4 DEF Follows, NoListDue
  <1>6. Screen(<<>>, down[c]) = Screen(<<>>, down'[c])
      BY <1>2, ComesNext DEF Played
  <1>7. ASSUME HistoryComes(c)
        PROVE  HistoryComes(c)'
    <2>1. Rows(c, Screen(<<>>, down[c])) = Stored(view[c])
        BY <1>4, <1>7 DEF HistoryComes
    <2>2. Rows(c, Screen(<<>>, down[c]))' = Stored(view[c])'
        BY <1>2, <1>6, <2>1 DEF Rows, Stored
    <2>3. Rows(c, ComingUp(c))' = Stored(view[c])'
        BY <1>3, <2>2 DEF ComingUp, Rows
    <2>4. IsPrefix(Rows(c, OnScreen(c)), Stored(view[c]))'
      <3>1. Rows(c, OnScreen(c))' = <<>>
          BY <1>3, OnlyEmpty DEF Rows
      <3>2. Stored(view[c])' \in Seq(Known)
        <4>1. Stored(view[c])' = Stored(view[c]) /\ saved \in Seq(Known)
            BY <1>2 DEF Stored, Posted
        <4>2. QED
            BY <4>1, StoredTyped
      <3>3. QED
          BY <3>1, <3>2, PrefixEmpty
    <2>5. QED
        BY <2>2, <2>3, <2>4 DEF HistoryComes
  <1>8. QED
      BY <1>2, <1>5, <1>7

LEMMA ReceiveMessageFollows ==
  ASSUME ChatAssumption, TypeOK, Posted, NEW c \in Clients, Follows(c), ReceiveMessage(c)
  PROVE  Follows(c)'
  <1> DEFINE m == Head(down[c]).msg
             X == OnScreen(c)
  <1>1. SUFFICES ASSUME view'[c] # 0, NoListDue(c)'
                 PROVE  LastFits(up'[c], view'[c]) /\ (~Has(up'[c], "history") => HistoryComes(c)')
      BY DEF Follows
  <1>2. /\ down[c] # <<>> /\ Head(down[c]).kind = "message" /\ down' = Taken(c)
        /\ UNCHANGED <<saved, up, view>> /\ view[c] # 0
      BY <1>1 DEF ReceiveMessage, Gets
  <1>3. /\ view[c] \in ChannelNumbers /\ X \in Seq(Known) /\ down[c] \in Seq(PacketsOf(Known))
        /\ saved \in Seq(Known)
      BY <1>2, WhatComes
  <1>4. m \in Known /\ down'[c] \in Seq(PacketsOf(Known))
    <2>1. Head(down[c]) \in PacketsOf(Known) /\ Tail(down[c]) \in Seq(PacketsOf(Known))
        BY <1>2, <1>3, FirstTaken
    <2>2. QED
        BY <1>2, <2>1, ComesNext, PacketsAre
  <1>5. OnScreen(c)' = Keep(X, m)
    <2>1. shown' = [shown EXCEPT ![c][view[c]] = Keep(@, m)]
        BY <1>2 DEF ReceiveMessage
    <2> HIDE DEF m
    <2>2. shown'[c][view[c]] = Keep(shown[c][view[c]], m)
        BY <1>3, <2>1 DEF TypeOK
    <2>3. QED
        BY <1>2, <2>2 DEF OnScreen
  <1>6. (Has(down[c], "start") <=> Has(down'[c], "start")) /\ (~Has(down'[c], "list") => ~Has(down[c], "list"))
      BY <1>2, ComesNext
  <1>7. LastFits(up[c], view[c]) /\ (~Has(up[c], "history") => HistoryComes(c))
      BY <1>1, <1>2, <1>6 DEF Follows, NoListDue
  <1>8. \A s : Screen(s, down[c]) = Screen(Append(s, m), down'[c])
    <2>1. \A s : Played(s, Head(down[c])) = Append(s, m)
        BY <1>2 DEF Played
    <2>2. QED
        BY <1>2, <2>1, ComesNext
  <1>9. /\ <<>> \in Seq(Known) /\ \A s \in Seq(Known) : Append(s, m) \in Seq(Known)
        /\ \A s \in Seq(Known) : Screen(s, down'[c]) = IF Has(down'[c], "start") THEN Screen(<<>>, down'[c])
                                                       ELSE s \o Screen(<<>>, down'[c])
        /\ Screen(<<>>, down'[c]) \in Seq(Known)
    <2>1. <<>> \in Seq(Known)
        BY EmptySeq
    <2>2. \A s \in Seq(Known) : Append(s, m) \in Seq(Known)
        BY <1>4, OneAdded
    <2>3. \A p \in PacketsOf(Known) : p.kind = "message" => p.msg \in Known
        BY PacketsAre
    <2>4. Screen(<<>>, down'[c]) \in Seq(Known)
        BY <1>4, <2>1, <2>3, ScreenTyped
    <2>5. \A s \in Seq(Known) : Screen(s, down'[c]) = IF Has(down'[c], "start") THEN Screen(<<>>, down'[c])
                                                       ELSE s \o Screen(<<>>, down'[c])
        BY <1>4, <2>3, ScreenStart
    <2>6. QED
        BY <2>1, <2>2, <2>4, <2>5
  <1>10. (\A s : Rows(c, s)' = Only(s, InChannel(view[c]) \cap ToSet(saved)))
         /\ (\A s : Rows(c, s) = Only(s, InChannel(view[c]) \cap ToSet(saved)))
         /\ Stored(view[c])' = Stored(view[c])
      BY <1>2 DEF Rows, Stored
  <1> DEFINE U == InChannel(view[c]) \cap ToSet(saved)
             F == Stored(view[c])
             Y == Screen(<<>>, down'[c])
  <1>11. ASSUME HistoryComes(c)
         PROVE  HistoryComes(c)'
    <2>1. CASE Has(down[c], "start")
      <3>1. Only(Screen(<<>>, down[c]), U) = F
          BY <1>10, <1>11, <2>1 DEF HistoryComes
      <3>2. Screen(<<>>, down[c]) = Y
          BY <1>6, <1>8, <1>9, <2>1
      <3>3. Rows(c, Screen(<<>>, down[c]))' = Only(Y, U)
          BY <1>2 DEF Rows
      <3>4. QED
          BY <1>6, <1>10, <2>1, <3>1, <3>2, <3>3 DEF HistoryComes
    <2>2. CASE ~Has(down[c], "start")
      <3>1. /\ IsPrefix(Only(X, U), F)
            /\ Len(X) < MaxMessages => Only(ComingUp(c), U) = F
          BY <1>10, <1>11, <2>2 DEF HistoryComes
      <3>2. ComingUp(c)' = Screen(Keep(X, m), down'[c])
          BY <1>5 DEF ComingUp
      <3>3. SUFFICES /\ IsPrefix(Only(Keep(X, m), U), F)
                     /\ Len(Keep(X, m)) < MaxMessages => Only(Screen(Keep(X, m), down'[c]), U) = F
        <4>1. Rows(c, OnScreen(c))' = Only(Keep(X, m), U) /\ Rows(c, ComingUp(c))' = Only(Screen(Keep(X, m), down'[c]), U)
            BY <1>2, <1>5, <3>2 DEF Rows
        <4> HIDE DEF X, m, U
        <4>2. QED
            BY <1>5, <1>6, <1>10, <2>2, <4>1 DEF HistoryComes
      <3>4. CASE Len(X) < MaxMessages
        <4>1. Keep(X, m) = Append(X, m)
            BY <3>4 DEF Keep
        <4> DEFINE A == Append(X, m)
        <4>2. A \in Seq(Known)
            BY <1>3, <1>9
        <4>3. ComingUp(c) = Screen(A, down'[c])
            BY <1>8 DEF ComingUp
        <4> HIDE DEF A
        <4>4. Screen(A, down'[c]) = A \o Y
            BY <1>6, <1>9, <2>2, <4>2
        <4>5. Only(Screen(A, down'[c]), U) = F
            BY <3>1, <3>4, <4>3
        <4> HIDE DEF Y, U, F
        <4>6. Y \in Seq(Known)
            BY <1>9 DEF Y
        <4>7. Only(A \o Y, U) = Only(A, U) \o Only(Y, U)
            BY <4>2, <4>6, OnlyJoin
        <4>8. Only(A, U) \in Seq(Known) /\ Only(Y, U) \in Seq(Known)
            BY <4>2, <4>6, OnlyIn
        <4>9. IsPrefix(Only(A, U), Only(A, U) \o Only(Y, U))
            BY <4>8, PrefixJoin
        <4>10. IsPrefix(Only(A, U), F)
            BY <4>4, <4>5, <4>7, <4>9
        <4>11. QED
            BY <4>1, <4>5, <4>10 DEF A
      <3>5. CASE ~(Len(X) < MaxMessages)
        <4>1. Keep(X, m) = X
            BY <3>5 DEF Keep
        <4>2. QED
            BY <3>1, <3>5, <4>1
      <3>6. QED
          BY <3>4, <3>5
    <2>3. QED
        BY <2>1, <2>2
  <1>12. QED
      BY <1>2, <1>7, <1>11

-----------------------------------------------------------------------------
(* The invariant. *)

LEMMA FollowingStep ==
  ASSUME ChatAssumption, TypeOK, Posted, Following, [Next]_vars
  PROVE  Following'
  <1> SUFFICES ASSUME NEW c \in Clients PROVE Follows(c)'
      BY DEF Following
  <1>1. Follows(c)
      BY DEF Following
  <1>2. CASE UNCHANGED vars
      BY <1>1, <1>2, Untouched DEF vars
  <1>3. ASSUME NEW d \in Clients, Key(d)
        PROVE  Follows(c)'
    <2>1. CASE c = d
        BY <1>1, <1>3, <2>1, KeyFollows
    <2>2. CASE c # d
      <3>1. UNCHANGED <<saved, down, shown>> /\ up'[c] = up[c] /\ view'[c] = view[c]
          BY <1>3, <2>2 DEF Key, EnterServer, SwitchChannel, Post, Request, TypeOK
      <3>2. QED
          BY <1>1, <3>1, Untouched
    <2>3. QED
        BY <2>1, <2>2
  <1>4. ASSUME NEW d \in Clients, Handle(d)
        PROVE  Follows(c)'
    <2>1. CASE HandlePost(d)
        BY <1>1, <2>1, PostFollows
    <2>2. CASE c = d /\ (HandleHistory(d) \/ HandleList(d))
        BY <1>1, <2>2, HistoryFollows, ListFollows
    <2>3. CASE c # d /\ (HandleHistory(d) \/ HandleList(d))
      <3>1. UNCHANGED <<saved, view, shown>> /\ up'[c] = up[c] /\ down'[c] = down[c]
          BY <2>3 DEF HandleHistory, HandleList, Answered, TypeOK
      <3>2. QED
          BY <1>1, <3>1, Untouched
    <2>4. QED
        BY <1>4, <2>1, <2>2, <2>3 DEF Handle
  <1>5. ASSUME NEW d \in Clients, Receive(d)
        PROVE  Follows(c)'
    <2>1. CASE c = d
        BY <1>1, <1>5, <2>1, ReceiveListFollows, ReceiveStartFollows, ReceiveMessageFollows DEF Receive
    <2>2. CASE c # d
      <3>1. saved' = saved /\ down'[c] = down[c]
          BY <1>5, <2>2 DEF Receive, ReceiveList, ReceiveStart, ReceiveMessage, Taken, TypeOK
      <3>2. up'[c] = up[c] /\ view'[c] = view[c] /\ shown'[c] = shown[c]
        <4>1. CASE ReceiveList(d)
            BY <2>2, <4>1 DEF ReceiveList, Request, TypeOK
        <4>2. CASE ReceiveStart(d)
            BY <2>2, <4>2 DEF ReceiveStart, TypeOK
        <4>3. CASE ReceiveMessage(d)
            BY <2>2, <4>3 DEF ReceiveMessage, TypeOK
        <4>4. QED
            BY <1>5, <4>1, <4>2, <4>3 DEF Receive
      <3>3. QED
          BY <1>1, <3>1, <3>2, Untouched
    <2>3. QED
        BY <2>1, <2>2
  <1>6. ASSUME NEW d \in Clients, Restart(d)
        PROVE  Follows(c)'
    <2>1. CASE c = d
      <3>1. view'[c] = 0
          BY <1>6, <2>1 DEF Restart, TypeOK
      <3>2. QED
          BY <3>1 DEF Follows
    <2>2. CASE c # d
      <3>1. /\ saved' = saved /\ up'[c] = up[c] /\ down'[c] = down[c]
            /\ view'[c] = view[c] /\ shown'[c] = shown[c]
          BY <1>6, <2>2 DEF Restart, TypeOK
      <3>2. QED
          BY <1>1, <3>1, Untouched
    <2>3. QED
        BY <2>1, <2>2
  <1>7. QED
      BY <1>2, <1>3, <1>4, <1>5, <1>6 DEF Next

LEMMA PostedStep ==
  ASSUME ChatAssumption, TypeOK, Posted, [Next]_vars
  PROVE  Posted'
  <1>1. CASE UNCHANGED vars
    <2>1. Known' = Known /\ UNCHANGED <<posts, up, saved, down, shown>>
        BY <1>1 DEF vars, Known
    <2>2. QED
        BY <2>1 DEF Posted
  <1>2. CASE Next
      BY <1>2, KeyPosted, HandlePosted, ReceivePosted, RestartPosted DEF Next
  <1>3. QED
      BY <1>1, <1>2

(* A client that follows shows the history once nothing is due.            *)
LEMMA FollowingShows ==
  ASSUME TypeOK, Following
  PROVE  ScreenIsHistory
  <1> SUFFICES ASSUME NEW c \in Clients, Settled(c)
               PROVE  /\ IsPrefix(Rows(c, OnScreen(c)), Stored(view[c]))
                      /\ Len(OnScreen(c)) < MaxMessages => Rows(c, ComingUp(c)) = Stored(view[c])
      BY DEF ScreenIsHistory
  <1>1. view[c] # 0 /\ NoListDue(c) /\ ~Has(up[c], "history") /\ ~Has(down[c], "start")
      BY DEF Settled, NoListDue, Has
  <1>2. HistoryComes(c)
      BY <1>1 DEF Following, Follows
  <1>3. QED
      BY <1>1, <1>2 DEF HistoryComes

(* However posts, switches of channel, refreshed lists and answers to      *)
(* outdated requests cross, a client whose last history has begun to come  *)
(* in shows the rows of its channel, each once and in order, and what is   *)
(* missing is on its way while there is room.                              *)
THEOREM ScreensFollow == Spec => []ScreenIsHistory
  <1>1. Init => TypeOK /\ Posted /\ Following
    <2>1. Init => \A c \in Clients : view[c] = 0
        BY DEF Init
    <2>2. Init => Following
        BY <2>1 DEF Following, Follows
    <2>3. QED
        BY <2>2, ChatAssumption, InitTyped, InitPosted
  <1>2. TypeOK /\ TypeOK' /\ Posted /\ Following /\ [Next]_vars => Posted' /\ Following'
      BY ChatAssumption, PostedStep, FollowingStep
  <1>3. TypeOK /\ Following => ScreenIsHistory
      BY FollowingShows
  <1>4. QED
      BY <1>1, <1>2, <1>3, Typing, PTL DEF Spec
=============================================================================
