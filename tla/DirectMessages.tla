---------------------------- MODULE DirectMessages ----------------------------
(***************************************************************************)
(* A conversation of two friends: what each types, the direct_messages     *)
(* table, and what each has on the screen.                                 *)
(*                                                                         *)
(* A client shows its own message the moment it is typed (the echo), and   *)
(* the server sends it to the other side only.  A history answer starts    *)
(* the screen anew, whenever it comes.  As in Chat each client is joined   *)
(* to the server by two FIFO links, the server handles a request as one    *)
(* step, and a client one key or one packet.  The friend list is one       *)
(* packet, and the friend has one slot in it.                              *)
(***************************************************************************)
EXTENDS Conversations

CONSTANTS
  Clients,        \* the two friends
  MaxMessages,    \* messages a client keeps of a conversation (MAX_MESSAGES)
  HistoryLimit,   \* rows of a history answer (LIMIT 50)
  MaxPosts,       \* bound: messages typed in all
  MaxRequests     \* bound: requests of a client on their way, or their answers

ASSUME DirectMessagesAssumption ==
  /\ \E a, b \in Clients : a # b /\ Clients = {a, b}
  /\ MaxMessages \in Nat \ {0}
  /\ HistoryLimit \in 1 .. MaxMessages
  /\ MaxPosts \in Nat
  /\ MaxRequests \in Nat

VARIABLES
  typed,     \* number of messages typed
  saved,     \* the direct_messages table, in the order of its ids
  session,   \* clients that are logged in
  up,        \* per client, requests the server has not handled
  down,      \* per client, packets the client has not processed
  listed,    \* clients whose friend list has the other
  onDMs,     \* clients on the screen of direct messages
  shown,     \* per client, the messages it keeps of the conversation
  opened,    \* history: clients that have begun to process a history answer
  hasty      \* history: per client, messages typed with a history under way

vars == <<typed, saved, session, up, down, listed, onDMs, shown, opened, hasty>>

Messages == [n : 1 .. MaxPosts, from : Clients]
Said(c) == [n : 1 .. MaxPosts, from : {c}]
Requests == [kind : {"list", "history"}] \cup [kind : {"post"}, msg : Messages]
Packets == [kind : {"list", "start"}] \cup [kind : {"message"}, msg : Messages]

TypeOK ==
  /\ typed \in 0 .. MaxPosts
  /\ saved \in Seq(Messages)
  /\ session \in SUBSET Clients
  /\ up \in [Clients -> Seq(Requests)]
  /\ down \in [Clients -> Seq(Packets)]
  /\ listed \in SUBSET session
  /\ onDMs \in SUBSET session
  /\ shown \in [Clients -> Seq(Messages)]
  /\ \A c \in Clients : Len(shown[c]) <= MaxMessages
  /\ opened \in SUBSET listed
  /\ hasty \in [Clients -> SUBSET Messages]

Init ==
  /\ typed = 0
  /\ saved = <<>>
  /\ session = {}
  /\ up = [c \in Clients |-> <<>>]
  /\ down = [c \in Clients |-> <<>>]
  /\ listed = {}
  /\ onDMs = {}
  /\ shown = [c \in Clients |-> <<>>]
  /\ opened = {}
  /\ hasty = [c \in Clients |-> {}]

Other(c) == CHOOSE d \in Clients : d # c

-----------------------------------------------------------------------------
(* The clients start, and end or lose their connection: then what is on    *)
(* its way in either direction is lost, and what was on the screen.        *)

Start(c) ==
  /\ c \notin session
  /\ session' = session \cup {c}
  /\ UNCHANGED <<typed, saved, up, down, listed, onDMs, shown, opened, hasty>>

Stop(c) ==
  /\ c \in session
  /\ session' = session \ {c}
  /\ up' = [up EXCEPT ![c] = <<>>]
  /\ down' = [down EXCEPT ![c] = <<>>]
  /\ listed' = listed \ {c}
  /\ onDMs' = onDMs \ {c}
  /\ shown' = [shown EXCEPT ![c] = <<>>]
  /\ opened' = opened \ {c}
  /\ hasty' = [hasty EXCEPT ![c] = {}]
  /\ UNCHANGED <<typed, saved>>

-----------------------------------------------------------------------------
(* The keyboard of a client. *)

Lists(c) == SelectSeq(down[c], LAMBDA p : p.kind # "message")
HasRoomForRequest(c) == Len(up[c]) + Len(Lists(c)) < MaxRequests

Request(c, r) ==
  /\ c \in session
  /\ HasRoomForRequest(c)
  /\ up' = [up EXCEPT ![c] = Append(@, r)]

(* F4: the screen of direct messages, and a request for the friend list. *)
OpenDMs(c) ==
  /\ c \notin onDMs
  /\ Request(c, [kind |-> "list"])
  /\ onDMs' = onDMs \cup {c}
  /\ UNCHANGED <<typed, saved, session, down, listed, shown, opened, hasty>>

(* F2: another screen. *)
CloseDMs(c) ==
  /\ c \in onDMs
  /\ onDMs' = onDMs \ {c}
  /\ UNCHANGED <<typed, saved, session, up, down, listed, shown, opened, hasty>>

(* TAB: the next friend, and a request for the conversation. *)
SelectFriend(c) ==
  /\ c \in onDMs \cap listed
  /\ Request(c, [kind |-> "history"])
  /\ UNCHANGED <<typed, saved, session, down, listed, onDMs, shown, opened, hasty>>

(* The start of a history is on its way to the client. *)
StartUnderWay(c) == \E k \in DOMAIN down[c] : down[c][k].kind = "start"

(* A history the client has asked for has not begun to come in. *)
HistoryUnderWay(c) ==
  (\E k \in DOMAIN up[c] : up[c][k].kind = "history") \/ StartUnderWay(c)

(* A message is kept unless the conversation is full. *)
Keep(msgs, msg) == IF Len(msgs) < MaxMessages THEN Append(msgs, msg) ELSE msgs

(* ENTER: the message goes out, and is on the sender's screen at once. *)
Type(c) ==
  LET msg == [n |-> typed + 1, from |-> c]
  IN  /\ c \in onDMs \cap listed
      /\ typed < MaxPosts
      /\ typed' = typed + 1
      /\ Request(c, [kind |-> "post", msg |-> msg])
      /\ shown' = [shown EXCEPT ![c] = Keep(@, msg)]
      /\ hasty' = IF HistoryUnderWay(c) THEN [hasty EXCEPT ![c] = @ \cup {msg}] ELSE hasty
      /\ UNCHANGED <<saved, session, down, listed, onDMs, opened>>

-----------------------------------------------------------------------------
(* The server. *)

Asks(c, kind) == up[c] # <<>> /\ Head(up[c]).kind = kind
Answered(c) == [up EXCEPT ![c] = Tail(@)]

(* Mutant: the sender is sent the message as in a channel. *)
DeliverToBoth(c, msg) ==
  [d \in Clients |-> IF d \in session THEN Append(down[d], AsPacket(msg)) ELSE down[d]]

(* The message of c goes to the other client, if it is logged in. *)
Deliver(c, msg) ==
  IF Other(c) \in session THEN [down EXCEPT ![Other(c)] = Append(@, AsPacket(msg))] ELSE down

(* DM_MESSAGE: it is saved, which may fail and is not looked at, and       *)
(* delivered.                                                              *)
HandlePost(c) ==
  LET msg == Head(up[c]).msg
  IN  /\ Asks(c, "post")
      /\ up' = Answered(c)
      /\ saved' = Append(saved, msg) \/ saved' = saved
      /\ down' = Deliver(c, msg)
      /\ UNCHANGED <<typed, session, listed, onDMs, shown, opened, hasty>>

(* Mutant: the first rows, in place of the last. *)
FirstRows == SubSeq(saved, 1, IF Len(saved) < HistoryLimit THEN Len(saved) ELSE HistoryLimit)

(* db_list_direct_messages: the last rows by id, the oldest of them first. *)
LastRows ==
  SubSeq(saved, IF Len(saved) > HistoryLimit THEN Len(saved) - HistoryLimit + 1 ELSE 1, Len(saved))

(* Mutant: the query has one direction of the conversation only. *)
HistoryOneWay(c) ==
  LET rows == Only(LastRows, Said(Other(c)))
  IN  /\ Asks(c, "history")
      /\ up' = Answered(c)
      /\ down' = [down EXCEPT ![c] =
                    (@ \o <<[kind |-> "start"]>>) \o AsPackets(rows)]
      /\ UNCHANGED <<typed, saved, session, listed, onDMs, shown, opened, hasty>>

(* DM_HISTORY_REQUEST: a start frame, then the rows. *)
HandleHistory(c) ==
  /\ Asks(c, "history")
  /\ up' = Answered(c)
  /\ down' = [down EXCEPT ![c] =
                (@ \o <<[kind |-> "start"]>>) \o AsPackets(LastRows)]
  /\ UNCHANGED <<typed, saved, session, listed, onDMs, shown, opened, hasty>>

(* SOCIAL_LIST_FRIENDS. *)
HandleList(c) ==
  /\ Asks(c, "list")
  /\ up' = Answered(c)
  /\ down' = [down EXCEPT ![c] = Append(@, [kind |-> "list"])]
  /\ UNCHANGED <<typed, saved, session, listed, onDMs, shown, opened, hasty>>

(* notify_friend_list_update: somebody else's friend request. *)
PushList(c) ==
  /\ c \in session
  /\ HasRoomForRequest(c)
  /\ down' = [down EXCEPT ![c] = Append(@, [kind |-> "list"])]
  /\ UNCHANGED <<typed, saved, session, up, listed, onDMs, shown, opened, hasty>>

-----------------------------------------------------------------------------
(* The packets a client processes. *)

Gets(c, kind) == down[c] # <<>> /\ Head(down[c]).kind = kind
Taken(c) == [down EXCEPT ![c] = Tail(@)]

(* The friend list is there: on the screen of direct messages the history  *)
(* of the conversation is asked for.                                       *)
ReceiveList(c) ==
  /\ Gets(c, "list")
  /\ down' = Taken(c)
  /\ listed' = listed \cup {c}
  /\ up' = IF c \in onDMs THEN [up EXCEPT ![c] = Append(@, [kind |-> "history"])] ELSE up
  /\ UNCHANGED <<typed, saved, session, onDMs, shown, opened, hasty>>

(* A start frame empties the conversation. *)
ReceiveStart(c) ==
  /\ Gets(c, "start")
  /\ down' = Taken(c)
  /\ shown' = [shown EXCEPT ![c] = <<>>]
  /\ opened' = opened \cup {c}
  /\ UNCHANGED <<typed, saved, session, up, listed, onDMs, hasty>>

(* A row or a message of the friend is kept, if the friend is listed. *)
ReceiveMessage(c) ==
  /\ Gets(c, "message")
  /\ down' = Taken(c)
  /\ shown' = IF c \in listed THEN [shown EXCEPT ![c] = Keep(@, Head(down[c]).msg)] ELSE shown
  /\ UNCHANGED <<typed, saved, session, up, listed, onDMs, opened, hasty>>

Key(c) == OpenDMs(c) \/ CloseDMs(c) \/ SelectFriend(c) \/ Type(c)
Handle(c) == HandlePost(c) \/ HandleHistory(c) \/ HandleList(c) \/ PushList(c)
Receive(c) == ReceiveList(c) \/ ReceiveStart(c) \/ ReceiveMessage(c)

Next == \E c \in Clients : Start(c) \/ Stop(c) \/ Key(c) \/ Handle(c) \/ Receive(c)

Spec == Init /\ [][Next]_vars

-----------------------------------------------------------------------------
(* Properties. *)

(* What c will have on the screen, room permitting, once it has processed  *)
(* all that is on its way.                                                 *)
ComingUp(c) == Screen(shown[c], down[c])

(* The conversation has been opened, and nothing was dropped from it. *)
Followed(c) ==
  \/ StartUnderWay(c)
  \/ c \in opened /\ Len(shown[c]) < MaxMessages

From(msgs, c) == Only(msgs, Said(c))
StoredOf(msgs) == Only(msgs, ToSet(saved))

(* What the friend has said, as far back as a history answer goes, is on   *)
(* an opened screen or on its way to it, in the order of the table and     *)
(* without a gap, whatever is typed, asked for, pushed or answered late.   *)
TheirsArrive ==
  \A c \in Clients : Followed(c) =>
    LET theirs == From(StoredOf(ComingUp(c)), Other(c))
    IN  /\ IsSuffix(theirs, From(saved, Other(c)))
        /\ IsSuffix(From(LastRows, Other(c)), theirs)

(* Nothing is twice on the screen: no echo meets its own row. *)
NothingTwice == \A c \in Clients : IsInjective(ComingUp(c))

(* What c has typed is on the screen or on its way to it, as far back as a *)
(* history answer goes: only a message typed while a history was under way *)
(* can be missing, when the answer was given without it and wiped it out.  *)
MineStay ==
  \A c \in Clients : Followed(c) =>
    \A m \in ToSet(From(LastRows, c)) \ hasty[c] : m \in ToSet(ComingUp(c))
=============================================================================
