-------------------------------- MODULE Chat --------------------------------
(***************************************************************************)
(* The messages of one server's channels, from the keyboard of a client to *)
(* the screens of all of them: the broadcast, the messages table, the      *)
(* history requests, and how a client files what it is sent.               *)
(*                                                                         *)
(* Each client is joined to the server by two FIFO links.  The server      *)
(* handles a request as one step; a client is one thread too, which takes  *)
(* a packet or a key at a time, so keys fall between any two packets of an *)
(* answer.  The server's channels are those of Guilds, in the order TAB    *)
(* goes through them; they are not created or deleted here.  The frame     *)
(* that ends a list of messages changes nothing at a client and is left    *)
(* out.                                                                    *)
(***************************************************************************)
EXTENDS Conversations

CONSTANTS
  Clients,       \* clients connected to the server
  Channels,      \* number of channels of the server
  MaxMessages,   \* messages a client keeps per channel (MAX_MESSAGES)
  MaxPosts,      \* bound: messages typed in all
  MaxRequests    \* bound: requests of one client on their way, or their answers

ASSUME ChatAssumption ==
  /\ Channels \in Nat \ {0}
  /\ MaxMessages \in Nat \ {0}
  /\ MaxPosts \in Nat
  /\ MaxRequests \in Nat

VARIABLES
  posts,    \* number of messages typed
  saved,    \* the messages table, in the order of its ids
  up,       \* per client, requests the server has not handled
  down,     \* per client, packets the client has not processed
  view,     \* active_channel, 0 while the client has no channel list
  shown     \* per client and channel, the messages it keeps

vars == <<posts, saved, up, down, view, shown>>

ChannelNumbers == 1 .. Channels
Messages == [n : 1 .. MaxPosts, ch : ChannelNumbers]
InChannel(ch) == [n : 1 .. MaxPosts, ch : {ch}]
Requests == [kind : {"list"}] \cup [kind : {"history"}, ch : ChannelNumbers]
              \cup [kind : {"post"}, msg : Messages]
Packets == [kind : {"list"}] \cup [kind : {"start"}] \cup [kind : {"message"}, msg : Messages]

TypeOK ==
  /\ posts \in 0 .. MaxPosts
  /\ saved \in Seq(Messages)
  /\ up \in [Clients -> Seq(Requests)]
  /\ down \in [Clients -> Seq(Packets)]
  /\ view \in [Clients -> 0 .. Channels]
  /\ shown \in [Clients -> [ChannelNumbers -> Seq(Messages)]]
  /\ \A c \in Clients, ch \in ChannelNumbers : Len(shown[c][ch]) <= MaxMessages

NothingShown == [ch \in ChannelNumbers |-> <<>>]

Init ==
  /\ posts = 0
  /\ saved = <<>>
  /\ up = [c \in Clients |-> <<>>]
  /\ down = [c \in Clients |-> <<>>]
  /\ view = [c \in Clients |-> 0]
  /\ shown = [c \in Clients |-> NothingShown]

-----------------------------------------------------------------------------
(* The keyboard of a client. *)

(* The lists and histories on their way to c. *)
Answers(c) == SelectSeq(down[c], LAMBDA p : p.kind # "message")

Request(c, r) ==
  /\ Len(up[c]) + Len(Answers(c)) < MaxRequests
  /\ up' = [up EXCEPT ![c] = Append(@, r)]

(* ENTER on the server in the server list: the first channel, if the       *)
(* client still has the list of channels, and a request for the list.      *)
EnterServer(c) ==
  /\ Request(c, [kind |-> "list"])
  /\ view' = [view EXCEPT ![c] = IF @ = 0 THEN 0 ELSE 1]
  /\ UNCHANGED <<posts, saved, down, shown>>

(* TAB in the chat screen: the next channel, and a request for what was    *)
(* said there.                                                             *)
NextChannel(ch) == (ch % Channels) + 1

SwitchChannel(c) ==
  /\ view[c] # 0
  /\ Request(c, [kind |-> "history", ch |-> NextChannel(view[c])])
  /\ view' = [view EXCEPT ![c] = NextChannel(@)]
  /\ UNCHANGED <<posts, saved, down, shown>>

(* ENTER in the chat screen: the message goes out, and is on the sender's  *)
(* screen when it comes back.                                              *)
Post(c) ==
  /\ view[c] # 0
  /\ posts < MaxPosts
  /\ posts' = posts + 1
  /\ Request(c, [kind |-> "post", msg |-> [n |-> posts + 1, ch |-> view[c]]])
  /\ UNCHANGED <<saved, down, view, shown>>

-----------------------------------------------------------------------------
(* The server. *)

(* Client c's next request is of this kind; the link without it. *)
Asks(c, kind) == up[c] # <<>> /\ Head(up[c]).kind = kind
Answered(c) == [up EXCEPT ![c] = Tail(@)]

(* Mutant: everyone but the sender, as channel_broadcast offers. *)
BroadcastToOthers(c, msg) ==
  [d \in Clients |-> IF d = c THEN down[d] ELSE Append(down[d], AsPacket(msg))]

(* channel_broadcast for a message of c: everyone, c included. *)
Broadcast(c, msg) == [d \in Clients |-> Append(down[d], AsPacket(msg))]

(* CHANNEL_MESSAGE is broadcast, and then saved.  Whether that worked      *)
(* (the insert may fail) is not looked at.                                 *)
HandlePost(c) ==
  LET msg == Head(up[c]).msg
  IN  /\ Asks(c, "post")
      /\ up' = Answered(c)
      /\ down' = Broadcast(c, msg)
      /\ saved' = Append(saved, msg) \/ saved' = saved
      /\ UNCHANGED <<posts, view, shown>>

(* The rows of a channel, in the order of their ids: the query orders them *)
(* by the second they were saved in, which ids never contradict.           *)
Stored(ch) == Only(saved, InChannel(ch))

(* CHANNEL_HISTORY_REQUEST: a start frame, then the rows. *)
HandleHistory(c) ==
  /\ Asks(c, "history")
  /\ up' = Answered(c)
  /\ down' = [down EXCEPT ![c] =
                (@ \o <<[kind |-> "start"]>>) \o AsPackets(Stored(Head(up[c]).ch))]
  /\ UNCHANGED <<posts, saved, view, shown>>

(* SERVER_LIST_CHANNELS: the whole list, which a client takes frame by     *)
(* frame but which is one packet here.                                     *)
HandleList(c) ==
  /\ Asks(c, "list")
  /\ up' = Answered(c)
  /\ down' = [down EXCEPT ![c] = Append(@, [kind |-> "list"])]
  /\ UNCHANGED <<posts, saved, view, shown>>

-----------------------------------------------------------------------------
(* The packets a client processes. *)

Gets(c, kind) == down[c] # <<>> /\ Head(down[c]).kind = kind
Taken(c) == [down EXCEPT ![c] = Tail(@)]

(* The list is there: all channels are empty, and the history of the       *)
(* active one is asked for.                                                *)
ReceiveList(c) ==
  LET ch == IF view[c] = 0 THEN 1 ELSE view[c]
  IN  /\ Gets(c, "list")
      /\ Request(c, [kind |-> "history", ch |-> ch])
      /\ down' = Taken(c)
      /\ view' = [view EXCEPT ![c] = ch]
      /\ shown' = [shown EXCEPT ![c] = NothingShown]
      /\ UNCHANGED <<posts, saved>>

(* A start frame empties the channel that is active by now. *)
ReceiveStart(c) ==
  /\ Gets(c, "start")
  /\ down' = Taken(c)
  /\ shown' = IF view[c] = 0 THEN shown ELSE [shown EXCEPT ![c][view[c]] = <<>>]
  /\ UNCHANGED <<posts, saved, up, view>>

(* A row of a history, or somebody's message, is added to the active       *)
(* channel, whichever channel it belongs to, unless the channel is full.   *)
Keep(msgs, msg) == IF Len(msgs) < MaxMessages THEN Append(msgs, msg) ELSE msgs

ReceiveMessage(c) ==
  /\ Gets(c, "message")
  /\ down' = Taken(c)
  /\ shown' = IF view[c] = 0 THEN shown
              ELSE [shown EXCEPT ![c][view[c]] = Keep(@, Head(down[c]).msg)]
  /\ UNCHANGED <<posts, saved, up, view>>

(* The client ends, or its connection is lost, and it is started again:    *)
(* what was on its way in either direction is lost.                        *)
Restart(c) ==
  /\ up' = [up EXCEPT ![c] = <<>>]
  /\ down' = [down EXCEPT ![c] = <<>>]
  /\ view' = [view EXCEPT ![c] = 0]
  /\ shown' = [shown EXCEPT ![c] = NothingShown]
  /\ UNCHANGED <<posts, saved>>

Key(c) == EnterServer(c) \/ SwitchChannel(c) \/ Post(c)
Handle(c) == HandlePost(c) \/ HandleHistory(c) \/ HandleList(c)
Receive(c) == ReceiveList(c) \/ ReceiveStart(c) \/ ReceiveMessage(c)

Next == \E c \in Clients : Key(c) \/ Handle(c) \/ Receive(c) \/ Restart(c)

Spec == Init /\ [][Next]_vars

-----------------------------------------------------------------------------
(* Properties. *)

(* Client c views a channel, and the beginning of its last history has     *)
(* been processed: what is still to come is added to the screen.           *)
Settled(c) ==
  /\ view[c] # 0
  /\ \A k \in DOMAIN up[c] : up[c][k].kind = "post"
  /\ \A k \in DOMAIN down[c] : down[c][k].kind = "message"

(* What is on the screen of c, and what will be, room permitting.          *)
OnScreen(c) == shown[c][view[c]]
ComingUp(c) == Screen(OnScreen(c), down[c])

(* The rows of c's channel among some messages. *)
Rows(c, msgs) == Only(msgs, InChannel(view[c]) \cap ToSet(saved))

(* However posts, switches of channel, refreshed lists and answers to      *)
(* outdated requests cross, a client whose last history has begun to come  *)
(* in shows the rows of its channel from the first on, each once and in    *)
(* order, and every row is there or on its way while the channel is not    *)
(* full.                                                                   *)
ScreenIsHistory ==
  \A c \in Clients : Settled(c) =>
    /\ IsPrefix(Rows(c, OnScreen(c)), Stored(view[c]))
    /\ Len(OnScreen(c)) < MaxMessages => Rows(c, ComingUp(c)) = Stored(view[c])
=============================================================================
