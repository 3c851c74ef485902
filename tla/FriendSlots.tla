----------------------------- MODULE FriendSlots -----------------------------
(***************************************************************************)
(* The direct messages of a client that has several friends: the slots of  *)
(* ui_friends, which a friend list refills while a conversation is open,   *)
(* and active_dm_friend, an index into them.                               *)
(*                                                                         *)
(* DirectMessages follows the messages of one conversation; here a slot    *)
(* only tells whose messages it holds, and whether a conversation has rows *)
(* is left open.  The client is joined to the server by two FIFO links and *)
(* handles one key or one packet at a time, so keys fall between the       *)
(* frames of a list.  A frame that changes nothing at the client (the end  *)
(* of a history, the answer to a friend command) is left out.              *)
(***************************************************************************)
EXTENDS Conversations, FiniteSetsExt

CONSTANTS
  Users,         \* the other users
  None,          \* no user
  MaxFriends,    \* slots of the client (MAX_FRIENDS)
  MaxRequests,   \* bound: requests of the client, and answers, on their way
  MaxLive        \* bound: packets on their way when a friend writes

ASSUME FriendSlotsAssumption ==
  /\ IsFiniteSet(Users)
  /\ None \notin Users
  /\ MaxFriends \in Nat \ {0}
  /\ MaxRequests \in Nat
  /\ MaxLive \in Nat

VARIABLES
  table,    \* rows of the friends table with this user, in the order of their ids
  up,       \* requests the server has not handled
  down,     \* packets the client has not processed
  screen,   \* current_screen: the direct messages, or another
  slots,    \* ui_friends: per slot the user, the type, whose messages are in it
  count,    \* friend_count
  active,   \* active_dm_friend, counted from 1; 0 for none
  draft,    \* dm_input: for whom it was begun, and whether a list came since
  stuck,    \* the client has divided by zero, or loops for good
  listed    \* history: the client has processed a whole list

view == <<slots, count, active>>
vars == <<table, up, down, screen, slots, count, active, draft, stuck, listed>>

Slots == 1 .. MaxFriends
Types == {"outgoing", "incoming", "friends"}
Verbs == {"friend", "accept", "unfriend", "reject"}
RowsBy(ids, by) == [id : ids, mine : by, accepted : BOOLEAN]
TableRows == RowsBy(Users, BOOLEAN)
Requests == [kind : {"list"}] \cup [kind : {"history", "post"}, id : Users]
              \cup [kind : {"command"}, verb : Verbs, id : Users]
Packets == [kind : {"listStart", "listEnd"}] \cup [kind : {"listRow"}, id : Users, type : Types]
              \cup [kind : {"start", "message"}, id : Users]
Drafts == [meant : Users, relisted : BOOLEAN]

Empty == [meant |-> None, relisted |-> FALSE]
NoSlots == [i \in Slots |-> [id |-> None, type |-> "outgoing", holds |-> {}]]

TypeOK ==
  /\ table \in Seq(TableRows)
  /\ up \in Seq(Requests)
  /\ down \in Seq(Packets)
  /\ screen \in {"others", "dms"}
  /\ slots \in [Slots -> [id : Users \cup {None}, type : Types, holds : SUBSET Users]]
  /\ count \in {0} \cup Slots
  /\ active \in {0} \cup Slots
  /\ draft \in Drafts \cup {Empty}
  /\ stuck \in {"no", "crashed", "looping"}
  /\ listed \in BOOLEAN

(* The client has logged in, to friends and requests made earlier. *)
Init ==
  /\ \E ids \in SeqOf(Users, Cardinality(Users)) :
       /\ IsInjective(ids)
       /\ table = [k \in DOMAIN ids |-> [id |-> ids[k], mine |-> FALSE, accepted |-> TRUE]]
  /\ up = <<>>
  /\ down = <<>>
  /\ screen = "others"
  /\ slots = NoSlots
  /\ count = 0
  /\ active = 0
  /\ draft = Empty
  /\ stuck = "no"
  /\ listed = FALSE

-----------------------------------------------------------------------------
(* The keyboard. *)

Answers == SelectSeq(down, LAMBDA p : p.kind \in {"listStart", "start"})
HasRoomFor(n) == Len(up) + Len(Answers) + n <= MaxRequests

Asks(r) == HasRoomFor(1) /\ up' = Append(up, r)

Accepted(n, s) == {i \in 1 .. n : s[i].type = "friends"}

(* draw_dms makes the first friend the active one if there is none.  The   *)
(* screen is drawn when no key is waiting, so a key may come before it.    *)
Drawn(a) ==
  LET defaults == screen' = "dms" /\ a = 0 /\ Accepted(count', slots') # {}
  IN  active' \in IF defaults THEN {a, Min(Accepted(count', slots'))} ELSE {a}

(* F4: the direct messages, and a request for the friend list. *)
OpenDMs ==
  /\ screen = "others"
  /\ Asks([kind |-> "list"])
  /\ screen' = "dms"
  /\ UNCHANGED <<slots, count>>
  /\ Drawn(active)
  /\ UNCHANGED <<table, down, draft, listed>>

(* F2 on the server list: the friends, and a request for the list. *)
OpenFriends ==
  /\ screen = "others"
  /\ Asks([kind |-> "list"])
  /\ UNCHANGED <<table, down, screen, view, draft, listed>>

(* F2: back to the server list.  A draft stays. *)
Leave ==
  /\ screen = "dms"
  /\ screen' = "others"
  /\ UNCHANGED <<table, up, down, view, draft, listed>>

(* /friend, /accept, /unfriend and /reject: the command, and a request for *)
(* the list.  The direct messages have no command line.                    *)
Command(verb, u) ==
  /\ screen # "dms"
  /\ HasRoomFor(2)
  /\ up' = up \o <<[kind |-> "command", verb |-> verb, id |-> u], [kind |-> "list"]>>
  /\ UNCHANGED <<table, down, screen, view, draft, listed>>

(* The do-while of TAB: one slot on at least, to the next friend. *)
NextFriend ==
  LET After(k) == ((active - 1 + k) % count) + 1
  IN  After(Min({k \in 1 .. count : After(k) \in Accepted(count, slots)}))

Conversing == screen = "dms" /\ active # 0

(* Mutants: the draft goes along to the next friend; nothing is asked for. *)
TabKeepsDraft ==
  /\ Conversing
  /\ Accepted(count, slots) # {}
  /\ active' = NextFriend
  /\ Asks([kind |-> "history", id |-> slots[NextFriend].id])
  /\ UNCHANGED <<table, down, screen, slots, count, draft, listed>>

TabShowsSlot ==
  /\ Conversing
  /\ Accepted(count, slots) # {}
  /\ active' = NextFriend
  /\ draft' = Empty
  /\ UNCHANGED <<table, up, down, screen, slots, count, listed>>

(* TAB: the next friend, and a request for the conversation. *)
Tab ==
  /\ Conversing
  /\ Accepted(count, slots) # {}
  /\ active' = NextFriend
  /\ draft' = Empty
  /\ Asks([kind |-> "history", id |-> slots[NextFriend].id])
  /\ UNCHANGED <<table, down, screen, slots, count, listed>>

(* TAB with an empty list takes a remainder by zero; TAB in a list of      *)
(* requests only never finds a friend.                                     *)
TabFails ==
  /\ Conversing
  /\ Accepted(count, slots) = {}
  /\ stuck' = IF count = 0 THEN "crashed" ELSE "looping"
  /\ UNCHANGED <<table, up, down, screen, view, draft, listed>>

(* The first character of a message. *)
BeginDraft ==
  /\ Conversing
  /\ draft = Empty
  /\ slots[active].id # None
  /\ draft' = [meant |-> slots[active].id, relisted |-> FALSE]
  /\ UNCHANGED <<table, up, down, screen, view, listed>>

(* ENTER: the message goes to the user of the slot, and is on the screen.  *)
Send ==
  /\ Conversing
  /\ draft # Empty
  /\ Asks([kind |-> "post", id |-> slots[active].id])
  /\ slots' = [slots EXCEPT ![active].holds = @ \cup {slots[active].id}]
  /\ draft' = Empty
  /\ UNCHANGED <<table, down, screen, count, active, listed>>

-----------------------------------------------------------------------------
(* The table, and the other users. *)

ListedRow(r) ==
  [kind |-> "listRow", id |-> r.id,
   type |-> IF r.accepted THEN "friends" ELSE IF r.mine THEN "outgoing" ELSE "incoming"]

(* db_list_friend_requests: the requests received, then those sent. *)
FriendList(t) ==
  LET rows == Only(t, RowsBy(Users, {FALSE})) \o Only(t, RowsBy(Users, {TRUE}))
  IN  [k \in DOMAIN rows |-> ListedRow(rows[k])]

ListFrames(t) ==
  (<<[kind |-> "listStart"]>> \o FriendList(t)) \o <<[kind |-> "listEnd"]>>

(* The table after a friend command about u, given by this user (mine) or  *)
(* by u.  A command that finds nothing to do changes nothing.              *)
Changed(verb, u, mine) ==
  LET known == {k \in DOMAIN table : table[k].id = u}
      asked == \E k \in known : ~table[k].accepted /\ table[k].mine # mine
      without == Only(table, RowsBy(Users \ {u}, BOOLEAN))
      with == [k \in DOMAIN table |-> [table[k] EXCEPT !.accepted = @ \/ k \in known]]
  IN  IF verb = "friend" /\ known = {} THEN
        Append(table, [id |-> u, mine |-> mine, accepted |-> FALSE])
      ELSE IF verb \in {"friend", "accept"} /\ asked THEN with
      ELSE IF verb = "reject" /\ asked THEN without
      ELSE IF verb = "unfriend" /\ \E k \in known : table[k].accepted THEN without
      ELSE table

Handles(kind) == up # <<>> /\ Head(up).kind = kind /\ up' = Tail(up)

(* A command of this user sends the list to the other; to this one only    *)
(* when two requests crossed.                                              *)
HandleCommand ==
  LET r == Head(up)
      t == Changed(r.verb, r.id, TRUE)
  IN  /\ Handles("command")
      /\ table' = t
      /\ down' = IF r.verb = "friend" /\ t # table /\ Len(t) = Len(table)
                 THEN down \o ListFrames(t) ELSE down
      /\ UNCHANGED <<screen, view, draft, listed>>

(* A command of another user, which notify_friend_list_update tells. *)
PeerCommand(verb, u) ==
  LET t == Changed(verb, u, FALSE)
  IN  /\ HasRoomFor(1)
      /\ t # table
      /\ table' = t
      /\ down' = down \o ListFrames(t)
      /\ UNCHANGED <<up, screen, view, draft, listed>>

HandleList ==
  /\ Handles("list")
  /\ down' = down \o ListFrames(table)
  /\ UNCHANGED <<table, screen, view, draft, listed>>

(* DM_HISTORY_REQUEST: a start frame, and rows if there are any. *)
HandleHistory ==
  LET u == Head(up).id
      start == Append(down, [kind |-> "start", id |-> u])
  IN  /\ Handles("history")
      /\ down' \in {start, Append(start, [kind |-> "message", id |-> u])}
      /\ UNCHANGED <<table, screen, view, draft, listed>>

(* DM_MESSAGE: saved, and on to the other user. *)
HandlePost ==
  /\ Handles("post")
  /\ UNCHANGED <<table, down, screen, view, draft, listed>>

(* A user writes, friend or not. *)
PeerWrites(u) ==
  /\ Len(down) < MaxLive
  /\ down' = Append(down, [kind |-> "message", id |-> u])
  /\ UNCHANGED <<table, up, screen, view, draft, listed>>

-----------------------------------------------------------------------------
(* The packets the client processes. *)

Gets(kind) == down # <<>> /\ Head(down).kind = kind /\ down' = Tail(down)

Relisted == IF draft = Empty THEN Empty ELSE [draft EXCEPT !.relisted = TRUE]

(* Mutant: the new list is added to the old one. *)
ListStartKeeps ==
  /\ Gets("listStart")
  /\ UNCHANGED <<slots, count, screen>>
  /\ Drawn(active)
  /\ UNCHANGED <<table, up, draft, listed>>

ReceiveListStart ==
  /\ Gets("listStart")
  /\ count' = 0
  /\ UNCHANGED <<slots, screen>>
  /\ Drawn(active)
  /\ UNCHANGED <<table, up, draft, listed>>

(* A row takes the next slot, and the messages that are in it. *)
ReceiveListRow ==
  LET p == Head(down)
  IN  /\ Gets("listRow")
      /\ IF count < MaxFriends
           THEN /\ count' = count + 1
                /\ slots' = [slots EXCEPT ![count + 1].id = p.id, ![count + 1].type = p.type]
           ELSE UNCHANGED <<slots, count>>
      /\ UNCHANGED screen
      /\ Drawn(active)
      /\ draft' = Relisted
      /\ UNCHANGED <<table, up, listed>>

(* The list is whole: with the direct messages open the first friend       *)
(* becomes the active one, and the conversation is asked for.              *)
ReceiveListEnd ==
  LET first == Min(Accepted(count, slots))
      opens == screen = "dms" /\ Accepted(count, slots) # {}
  IN  /\ Gets("listEnd")
      /\ UNCHANGED <<slots, count, screen>>
      /\ up' = IF opens THEN Append(up, [kind |-> "history", id |-> slots[first].id]) ELSE up
      /\ Drawn(IF opens THEN first ELSE active)
      /\ draft' = Relisted
      /\ listed' = TRUE
      /\ UNCHANGED table

(* The slot ui_receive_dm_message files a packet of u's conversation in: a *)
(* start frame empties it, a message is added.                             *)
SlotsOf(u) == {i \in 1 .. count : slots[i].id = u}

Files(u, adds) ==
  /\ slots' = IF SlotsOf(u) = {} THEN slots
              ELSE [slots EXCEPT ![Min(SlotsOf(u))].holds = IF adds THEN @ \cup {u} ELSE {}]
  /\ UNCHANGED <<table, up, screen, count, draft, listed>>

ReceiveStart ==
  /\ Gets("start")
  /\ Files(Head(down).id, FALSE)
  /\ Drawn(active)

ReceiveMessage ==
  /\ Gets("message")
  /\ Files(Head(down).id, TRUE)
  /\ Drawn(active)

(* The client is ended, or loses its connection, and is started again. *)
Restart ==
  /\ up' = <<>>
  /\ down' = <<>>
  /\ screen' = "others"
  /\ slots' = NoSlots
  /\ count' = 0
  /\ active' = 0
  /\ draft' = Empty
  /\ stuck' = "no"
  /\ listed' = FALSE
  /\ UNCHANGED table

(* ESC, the logout packet and a new login: the list and the active friend  *)
(* are reset, the slots keep their messages.  (What may be on its way      *)
(* meanwhile is in ClientSession and ListStream.)                          *)
SignInAgain ==
  /\ screen = "others"
  /\ up = <<>> /\ down = <<>>
  /\ count' = 0
  /\ active' = 0
  /\ draft' = Empty
  /\ listed' = FALSE
  /\ UNCHANGED <<table, up, down, screen, slots>>

Key ==
  \/ SignInAgain
  \/ OpenDMs \/ OpenFriends \/ Leave \/ Tab \/ BeginDraft \/ Send
  \/ \E verb \in Verbs, u \in Users : Command(verb, u)

Receive ==
  \/ ReceiveListStart \/ ReceiveListRow \/ ReceiveListEnd
  \/ ReceiveStart \/ ReceiveMessage

Serve ==
  \/ HandleCommand \/ HandleList \/ HandleHistory \/ HandlePost
  \/ \E u \in Users : PeerWrites(u) \/ \E verb \in Verbs : PeerCommand(verb, u)

Next ==
  \/ stuck = "no" /\ (Key \/ Receive) /\ UNCHANGED stuck
  \/ stuck = "no" /\ TabFails
  \/ Serve /\ UNCHANGED stuck
  \/ Restart

Spec == Init /\ [][Next]_vars

-----------------------------------------------------------------------------
(* Properties. *)

InFlight(kinds) ==
  (\E k \in DOMAIN up : up[k].kind \in kinds) \/ (\E k \in DOMAIN down : down[k].kind \in kinds)

ListFrameKinds == {"list", "command", "listStart", "listRow", "listEnd"}

(* Whoever changes a friendship, and however their commands, lists and     *)
(* pushed lists cross: once no list is on its way the slots are the        *)
(* friends and requests of the table, in its order, as far as they go.     *)
SlotsAreTheList ==
  listed /\ ~InFlight(ListFrameKinds) =>
    /\ count = Min({MaxFriends, Len(FriendList(table))})
    /\ \A i \in 1 .. count :
         slots[i].id = FriendList(table)[i].id /\ slots[i].type = FriendList(table)[i].type

(* The slots move under the messages that are in them.  Still the          *)
(* conversation on the screen, once no list and no history is on its way,  *)
(* is with the friend whose name it bears, and with nobody else.           *)
SlotIsConversation ==
  /\ Conversing
  /\ active \in Accepted(count, slots)
  /\ ~InFlight(ListFrameKinds \cup {"history", "start"})
  => slots[active].holds \subseteq {slots[active].id}

(* What is typed goes to the user in view when it was begun, unless a list *)
(* has moved the slots since.                                              *)
OnlyListsRedirect ==
  [][Send => draft.relisted \/ slots[active].id = draft.meant]_vars

(* ui.c: active_dm_friend is "the index of the friend we are chatting      *)
(* with": what is typed to a friend goes to that friend.                   *)
SentAsTyped == [][Send => slots[active].id = draft.meant]_vars

(* ui.c: TAB is to "cycle through accepted friends", and README.md has the *)
(* terminal fully responsive: no key stops the client.                     *)
TabResponds == stuck = "no"
=============================================================================
