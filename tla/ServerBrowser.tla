---------------------------- MODULE ServerBrowser ----------------------------
(***************************************************************************)
(* The servers of a client: the slots of servers[], which every server     *)
(* list refills from the first on, active_server, an index into them, and  *)
(* the screens (server list, chat, command window) that go by it.          *)
(*                                                                         *)
(* The client is joined to the server by two FIFO links and handles a key  *)
(* or a packet at a time.  A list is one packet here; ListStream shows     *)
(* that the frames of one do not mix with others.  Of a server's channels  *)
(* a slot tells whose they are and whether there are any; of its members,  *)
(* whose they are.  The code keeps the two lists apart, so a behaviour     *)
(* follows one of them.  What a server has, and what this user may do      *)
(* there, is left open: Guilds and MemberLists have that.  Friends, users  *)
(* and direct messages are other screens, from which the server list is    *)
(* asked for anew.  The database fails when it likes.                      *)
(***************************************************************************)
EXTENDS Naturals, Sequences, FiniteSets, FiniteSetsExt

CONSTANTS
  Servers,       \* ids of servers, in the order of their names
  Shared,        \* bound: the servers that other users make and delete
  None,          \* no server
  MaxSlots,      \* slots of the client (UI_MAX_SERVERS)
  MaxRequests    \* bound: requests of the client and answers on their way

ASSUME ServerBrowserAssumption ==
  /\ Servers \subseteq Nat
  /\ IsFiniteSet(Servers)
  /\ Shared \subseteq Servers
  /\ None \notin Servers
  /\ MaxSlots \in Nat \ {0}
  /\ MaxRequests \in Nat

VARIABLES
  followed,   \* which of a server's two lists the behaviour is about
  named,      \* the name the client calls itself is its account's
  guilds,     \* servers in the database
  viewing,    \* current_server_index of this client at the server
  up,         \* requests the server has not handled
  down,       \* packets the client has not processed
  slots,      \* servers[]: the server, whose lists are there, and channels if any
  count,      \* server_count
  cursor,     \* server_cursor, counted from 1
  active,     \* active_server, counted from 1; 0 for none
  screen,     \* current_screen
  previous,   \* previous_screen, of the command window
  waiting,    \* the command window says that a request was sent
  crashed,    \* TAB has divided by zero
  outdated,   \* history: the list sent last was cut short, or others, or a
              \* create that was refused halfway, have changed the servers since
  unheard,    \* history: since a request was sent an answer passed unheard
  refilled    \* history: a list refilled the active slot since ENTER

server == <<guilds, outdated, viewing>>
chosen == <<cursor, active, refilled>>
window == <<screen, previous, waiting, unheard>>
vars == <<followed, named, server, up, down, slots, count, chosen, window, crashed>>

(* The commands whose window closes at once, and those whose window waits. *)
QuickKinds == {"create", "leave"}
SlowKinds == {"delete", "newChannel", "dropChannel", "kick", "status"}
Commands == QuickKinds \cup SlowKinds
Lists == {"channels", "members"}
Requests == [kind : {"list"} \cup Lists \cup Commands, of : Servers \cup {None}]
Packets ==
  [kind : {"servers"}, ids : Seq(Servers)]
    \cup [kind : Lists, of : Servers, any : BOOLEAN]
    \cup [kind : {"reply"}, to : Commands, ok : BOOLEAN]
    \cup [kind : {"namesake"}]

Blank == [id |-> None, list |-> None, any |-> FALSE]

TypeOK ==
  /\ followed \in Lists
  /\ named \in BOOLEAN
  /\ guilds \subseteq Servers
  /\ viewing \in Servers \cup {None}
  /\ up \in Seq(Requests)
  /\ down \in Seq(Packets)
  /\ slots \in [1 .. MaxSlots -> [id : Servers \cup {None}, list : Servers \cup {None}, any : BOOLEAN]]
  /\ count \in 0 .. MaxSlots
  /\ cursor \in 1 .. MaxSlots
  /\ active \in 0 .. MaxSlots
  /\ screen \in {"servers", "chat", "command"}
  /\ previous \in {"servers", "chat"}
  /\ waiting \in BOOLEAN
  /\ crashed \in BOOLEAN
  /\ outdated \in BOOLEAN
  /\ unheard \in BOOLEAN
  /\ refilled \in BOOLEAN

ListRequest == [kind |-> "list", of |-> None]

(* The user has logged in: the client has asked for the servers.  The name *)
(* it has put down for itself may be another's (ClientSession).            *)
Init ==
  /\ followed \in Lists
  /\ named \in BOOLEAN
  /\ guilds \in SUBSET Servers
  /\ viewing = None
  /\ up = <<ListRequest>>
  /\ down = <<>>
  /\ slots = [i \in 1 .. MaxSlots |-> Blank]
  /\ count = 0
  /\ cursor = 1
  /\ active = 0
  /\ screen = "servers"
  /\ previous = "servers"
  /\ waiting = FALSE
  /\ crashed = FALSE
  /\ outdated = TRUE
  /\ unheard = FALSE
  /\ refilled = FALSE

-----------------------------------------------------------------------------
(* The keyboard. *)

HasRoomFor(n) == Len(up) + Len(down) + n <= MaxRequests

Asks(r) == HasRoomFor(1) /\ up' = Append(up, r)

(* F2, and F2 again, on the server list: the list is asked for anew. *)
Refresh ==
  /\ screen = "servers"
  /\ Asks(ListRequest)
  /\ UNCHANGED <<server, down, slots, count, chosen, window>>

MoveCursor ==
  /\ screen = "servers"
  /\ \/ cursor > 1 /\ cursor' = cursor - 1
     \/ cursor < count /\ cursor' = cursor + 1
  /\ UNCHANGED <<server, up, down, slots, count, active, refilled, window>>

(* Mutant: a list that is there is not asked for again. *)
EnterCached ==
  /\ screen = "servers"
  /\ count > 0
  /\ IF slots[cursor].list = None THEN Asks([kind |-> followed, of |-> slots[cursor].id])
     ELSE UNCHANGED up
  /\ active' = cursor
  /\ refilled' = FALSE
  /\ screen' = "chat"
  /\ UNCHANGED <<server, down, slots, count, cursor, previous, waiting, unheard>>

(* ENTER on the server list: the slot at the cursor, wherever the list     *)
(* ends.  It sends the requests to join, which changes nothing here, and   *)
(* for the server's channels and members.                                  *)
Enter ==
  /\ screen = "servers"
  /\ count > 0
  /\ Asks([kind |-> followed, of |-> slots[cursor].id])
  /\ active' = cursor
  /\ refilled' = FALSE
  /\ screen' = "chat"
  /\ UNCHANGED <<server, down, slots, count, cursor, previous, waiting, unheard>>

(* TAB in the chat.  What it asks for is in Chat. *)
Tab ==
  /\ screen = "chat"
  /\ followed = "channels"
  /\ ~slots[active].any
  /\ crashed' = TRUE
  /\ UNCHANGED <<followed, named, server, up, down, slots, count, chosen, window>>

(* F2 in the chat: the server stays the active one while it is listed. *)
LeaveChat ==
  /\ screen = "chat"
  /\ screen' = "servers"
  /\ active' = IF active <= count THEN active ELSE 0
  /\ UNCHANGED <<server, up, down, slots, count, cursor, refilled, previous, waiting, unheard>>

OpenCommand ==
  /\ screen # "command"
  /\ previous' = screen
  /\ screen' = "command"
  /\ UNCHANGED <<server, up, down, slots, count, chosen, waiting, unheard>>

(* ESC: back.  The status line stays as it is. *)
Cancel ==
  /\ screen = "command"
  /\ screen' = previous
  /\ UNCHANGED <<server, up, down, slots, count, chosen, previous, waiting, unheard>>

(* A command that closes the window at once. *)
QuickCommand(kind, s) ==
  /\ screen = "command"
  /\ \/ kind = "create"
     \/ kind = "leave" /\ active # 0 /\ s = slots[active].id
  /\ Asks([kind |-> kind, of |-> s])
  /\ screen' = previous
  /\ waiting' = FALSE
  /\ UNCHANGED <<server, down, slots, count, chosen, previous, unheard>>

(* The list of a server that a command changes. *)
ListAfter(kind) == IF kind = "kick" THEN "members" ELSE "channels"

(* A command whose window waits for the answer.  It is about a server by   *)
(* its name, about the active one, about a channel or a member of those    *)
(* listed, or (/setstatus) about the user and no server.                   *)
SlowCommand(kind, s) ==
  /\ screen = "command"
  /\ \/ kind = "status"
     \/ kind = "delete" /\ \E i \in 1 .. count : s = slots[i].id
     \/ /\ previous = "chat"
        /\ active \in 1 .. count
        /\ ListAfter(kind) = followed
        /\ \/ kind = "newChannel" /\ s = slots[active].id
           \/ kind = "kick" /\ slots[active].list # None /\ s = slots[active].id
           \/ kind = "dropChannel" /\ slots[active].any /\ s = slots[active].list
  /\ Asks([kind |-> kind, of |-> IF kind = "status" THEN None ELSE s])
  /\ waiting' = TRUE
  /\ unheard' = FALSE
  /\ UNCHANGED <<server, down, slots, count, chosen, screen, previous>>

(* A character in the command window clears the status line. *)
TypeCommand ==
  /\ screen = "command"
  /\ waiting
  /\ waiting' = FALSE
  /\ UNCHANGED <<server, up, down, slots, count, chosen, screen, previous, unheard>>

-----------------------------------------------------------------------------
(* The server. *)

Handles(kind) == up # <<>> /\ Head(up).kind = kind /\ up' = Tail(up)
Sends(p) == down' = Append(down, p)

(* All servers, in order: the ORDER BY of db_list_servers. *)
ServerList ==
  CHOOSE l \in [1 .. Cardinality(guilds) -> guilds] : \A i, j \in DOMAIN l : i < j => l[i] < l[j]

(* The list may end early: a step of the query that fails is taken for its *)
(* end, and a query that cannot be made is answered with an error that the *)
(* client reads as a list of nothing.                                      *)
HandleList ==
  /\ Handles("list")
  /\ \E n \in 0 .. Cardinality(guilds) :
       /\ Sends([kind |-> "servers", ids |-> SubSeq(ServerList, 1, n)])
       /\ outdated' = (n < Cardinality(guilds))
  /\ UNCHANGED <<guilds, viewing, slots, count, chosen, window>>

(* SERVER_LIST_CHANNELS and SERVER_LIST_MEMBERS; the latter is how the     *)
(* server knows where the client is, whether or not the query fails.  An   *)
(* error is read as a list of nothing.  (Whether members are in their list *)
(* is not told.)                                                           *)
HandleDetails(kind) ==
  LET s == Head(up).of
  IN  /\ Handles(kind)
      /\ \E any \in {TRUE, kind = "members"} : Sends([kind |-> kind, of |-> s, any |-> any])
      /\ viewing' = IF kind = "members" THEN s ELSE viewing
      /\ UNCHANGED <<guilds, outdated, slots, count, chosen, window>>

(* notify_server_member_list: somebody joined, left, came or went. *)
PushMembers ==
  /\ viewing # None
  /\ HasRoomFor(1)
  /\ Sends([kind |-> "members", of |-> viewing, any |-> TRUE])
  /\ UNCHANGED <<server, up, slots, count, chosen, window>>

(* notify_user_status_update, for somebody else who is called what the     *)
(* client calls itself.  (Who is called otherwise does not matter here.)   *)
PushNamesake ==
  /\ ~named
  /\ HasRoomFor(1)
  /\ Sends([kind |-> "namesake"])
  /\ UNCHANGED <<server, up, slots, count, chosen, window>>

Answer(kind, ok) == Sends([kind |-> "reply", to |-> kind, ok |-> ok])

(* create_tizcord_server.  The name must be new.  The server and its first *)
(* member are two statements: when the second fails the server is there,   *)
(* and the answer says it is not.                                          *)
HandleCreate ==
  LET s == Head(up).of
  IN  /\ Handles("create")
      /\ \/ Answer("create", FALSE) /\ UNCHANGED <<guilds, outdated>>
         \/ /\ s \notin guilds
            /\ guilds' = guilds \cup {s}
            /\ \/ Answer("create", TRUE) /\ UNCHANGED outdated
               \/ Answer("create", FALSE) /\ outdated' = TRUE
      /\ UNCHANGED <<viewing, slots, count, chosen, window>>

(* leave_tizcord_server: to leave a server one is not in succeeds, too. *)
HandleLeave ==
  /\ Handles("leave")
  /\ \/ /\ Answer("leave", TRUE)
        /\ viewing' = IF viewing = Head(up).of THEN None ELSE viewing
     \/ Answer("leave", FALSE) /\ UNCHANGED viewing
  /\ UNCHANGED <<guilds, outdated, slots, count, chosen, window>>

(* Mutant: a delete that is not allowed is not answered. *)
DeleteInSilence ==
  LET s == Head(up).of
  IN  /\ Handles("delete")
      /\ \/ s \in guilds /\ guilds' = guilds \ {s} /\ Answer("delete", TRUE)
         \/ UNCHANGED <<guilds, down>>
      /\ UNCHANGED <<viewing, outdated, slots, count, chosen, window>>

(* delete_tizcord_server.  Whether this user is the server's admin, here   *)
(* and below, is left open.                                                *)
HandleDelete ==
  LET s == Head(up).of
  IN  /\ Handles("delete")
      /\ \/ s \in guilds /\ guilds' = guilds \ {s} /\ Answer("delete", TRUE)
         \/ Answer("delete", FALSE) /\ UNCHANGED guilds
      /\ UNCHANGED <<viewing, outdated, slots, count, chosen, window>>

(* Answered either way; what is carried out is carried out in a server     *)
(* that is there.                                                          *)
AnswersInside(kind) ==
  /\ Handles(kind)
  /\ \E ok \in BOOLEAN : (ok => Head(up).of \in guilds) /\ Answer(kind, ok)
  /\ UNCHANGED <<server, slots, count, chosen, window>>

(* CHANNEL_CREATE and CHANNEL_DELETE. *)
HandleChannel == AnswersInside("newChannel") \/ AnswersInside("dropChannel")

(* kick_server_member. *)
HandleKick == AnswersInside("kick")

(* SOCIAL_UPDATE_STATUS: the answer is the update that everybody gets, or  *)
(* an error for this client.                                               *)
HandleStatus ==
  /\ Handles("status")
  /\ \E ok \in BOOLEAN : Answer("status", ok)
  /\ UNCHANGED <<server, slots, count, chosen, window>>

(* Other users make and delete servers; nobody is told. *)
OthersAct(s) ==
  /\ guilds' \in {guilds \cup {s}, guilds \ {s}}
  /\ outdated' = TRUE
  /\ UNCHANGED <<viewing, up, down, slots, count, chosen, window>>

-----------------------------------------------------------------------------
(* The packets the client processes. *)

Gets(kind) == down # <<>> /\ Head(down).kind = kind /\ down' = Tail(down)

(* The list takes the slots from the first on, as many as there are; what  *)
(* was known of the servers in them is gone.                               *)
ReceiveServers ==
  LET ids == Head(down).ids
      n == Min({MaxSlots, Len(ids)})
  IN  /\ Gets("servers")
      /\ count' = n
      /\ slots' = [i \in 1 .. MaxSlots |-> IF i <= n THEN [Blank EXCEPT !.id = ids[i]] ELSE slots[i]]
      /\ refilled' = (refilled \/ active \in 1 .. n)
      /\ UNCHANGED <<server, up, cursor, active, window>>

(* Mutant: what arrives under a command window is dropped. *)
DetailsOnlyInChat(kind) ==
  LET p == Head(down)
  IN  /\ Gets(kind)
      /\ slots' = IF active \in 1 .. count /\ screen = "chat"
                  THEN [slots EXCEPT ![active].list = p.of,
                                     ![active].any = IF kind = "channels" THEN p.any ELSE @]
                  ELSE slots
      /\ UNCHANGED <<server, up, count, chosen, window>>

(* Channels and members are taken for those of the active server. *)
ReceiveDetails(kind) ==
  LET p == Head(down)
  IN  /\ Gets(kind)
      /\ slots' = IF active \in 1 .. count
                  THEN [slots EXCEPT ![active].list = p.of,
                                     ![active].any = IF kind = "channels" THEN p.any ELSE @]
                  ELSE slots
      /\ UNCHANGED <<server, up, count, chosen, window>>

(* Mutant: a window that is open stays open. *)
LeaveUnderWindow ==
  /\ Gets("reply") /\ Head(down).to = "leave" /\ Head(down).ok
  /\ active' = 0
  /\ screen' = IF screen = "chat" THEN "servers" ELSE screen
  /\ waiting' = FALSE
  /\ up' = Append(up, ListRequest)
  /\ UNCHANGED <<server, slots, count, cursor, refilled, previous, unheard>>

(* The user has left a server: to the server list, from wherever. *)
ReceiveLeft ==
  /\ Gets("reply") /\ Head(down).to = "leave" /\ Head(down).ok
  /\ active' = 0
  /\ screen' = "servers"
  /\ waiting' = FALSE
  /\ up' = Append(up, ListRequest)
  /\ UNCHANGED <<server, slots, count, cursor, refilled, previous, unheard>>

(* Mutant: the command window is all that a deleted server changes. *)
FollowUpButDelete(kind) ==
  IF kind = "create" THEN <<ListRequest>>
  ELSE IF kind = "delete" \/ active = 0 THEN <<>>
  ELSE <<[kind |-> ListAfter(kind), of |-> slots[active].id]>>

(* What the client asks for after a command was carried out: the servers,  *)
(* or the channels or members of the server that is active by now.  (The   *)
(* answer to a delete names no server, so the chat is never closed by it.) *)
FollowUp(kind) ==
  IF kind \in {"create", "delete"} THEN <<ListRequest>>
  ELSE IF active = 0 THEN <<>>
  ELSE <<[kind |-> ListAfter(kind), of |-> slots[active].id]>>

ReceiveDone ==
  LET p == Head(down)
      closes == p.to # "create"
  IN  /\ Gets("reply") /\ p.ok /\ p.to \notin {"leave", "status"}
      /\ up' = up \o FollowUp(p.to)
      /\ screen' = IF closes /\ screen = "command" THEN previous ELSE screen
      /\ waiting' = (waiting /\ ~closes)
      /\ UNCHANGED <<server, slots, count, chosen, previous, unheard>>

(* SOCIAL_UPDATE_STATUS with the name the client calls itself is taken for *)
(* the answer, whoever it is about.  (Users are listed on other screens.)  *)
ReceiveStatus ==
  /\ \/ Gets("namesake")
     \/ named /\ Gets("reply") /\ Head(down).to = "status" /\ Head(down).ok
  /\ screen' = IF screen = "command" THEN previous ELSE screen
  /\ waiting' = FALSE
  /\ UNCHANGED <<server, up, slots, count, chosen, previous, unheard>>

(* With another name it is an update about somebody else. *)
ReceiveUnheard ==
  /\ ~named
  /\ Gets("reply") /\ Head(down).to = "status" /\ Head(down).ok
  /\ unheard' = TRUE
  /\ UNCHANGED <<server, up, slots, count, chosen, screen, previous, waiting>>

(* A refusal is shown in the status line, but that of a create or a leave. *)
ReceiveRefusal ==
  /\ Gets("reply") /\ ~Head(down).ok
  /\ waiting' = (waiting /\ Head(down).to \in QuickKinds)
  /\ UNCHANGED <<server, up, slots, count, chosen, screen, previous, unheard>>

(* The client has ended, and is started again.  (What goes on meanwhile is *)
(* left out.)                                                              *)
Restart ==
  /\ crashed
  /\ viewing' = None
  /\ up' = <<ListRequest>>
  /\ down' = <<>>
  /\ slots' = [i \in 1 .. MaxSlots |-> Blank]
  /\ count' = 0
  /\ cursor' = 1
  /\ active' = 0
  /\ screen' = "servers"
  /\ previous' = "servers"
  /\ waiting' = FALSE
  /\ crashed' = FALSE
  /\ refilled' = FALSE
  /\ outdated' = TRUE
  /\ UNCHANGED <<followed, named, guilds, unheard>>

(* ESC on the server list, the logout packet and a new login: the count,   *)
(* the cursor and the active server are reset, and the list is asked for.  *)
(* (What may be on its way meanwhile is in ClientSession and ListStream.)  *)
SignInAgain ==
  /\ screen = "servers"
  /\ up = <<>> /\ down = <<>>
  /\ viewing' = None
  /\ up' = <<ListRequest>>
  /\ count' = 0
  /\ cursor' = 1
  /\ active' = 0
  /\ waiting' = FALSE
  /\ outdated' = TRUE
  /\ UNCHANGED <<guilds, down, slots, refilled, screen, previous, unheard>>

Key ==
  \/ SignInAgain
  \/ Refresh \/ MoveCursor \/ Enter \/ LeaveChat
  \/ OpenCommand \/ Cancel \/ TypeCommand
  \/ \E s \in Servers :
       \/ \E kind \in QuickKinds : QuickCommand(kind, s)
       \/ \E kind \in SlowKinds : SlowCommand(kind, s)

Receive ==
  \/ ReceiveServers \/ ReceiveDetails(followed)
  \/ ReceiveLeft \/ ReceiveDone \/ ReceiveRefusal
  \/ ReceiveStatus \/ ReceiveUnheard

Handle ==
  \/ HandleList \/ HandleDetails(followed)
  \/ HandleCreate \/ HandleLeave \/ HandleDelete
  \/ HandleChannel \/ HandleKick \/ HandleStatus

Next ==
  \/ ~crashed /\ (Key \/ Receive) /\ UNCHANGED <<followed, named, crashed>>
  \/ ~crashed /\ (Handle \/ PushMembers \/ PushNamesake \/ \E s \in Shared : OthersAct(s))
     /\ UNCHANGED <<followed, named, crashed>>
  \/ ~crashed /\ Tab
  \/ Restart

Spec == Init /\ [][Next]_vars

-----------------------------------------------------------------------------
(* Properties. *)

InFlight(kinds) ==
  (\E k \in DOMAIN up : up[k].kind \in kinds) \/ (\E k \in DOMAIN down : down[k].kind \in kinds)

(* The chat, or a command window over it. *)
InChat == screen = "chat" \/ (screen = "command" /\ previous = "chat")

(* The chat always has a server: servers[-1] is not looked at, however     *)
(* late the answer to /leaveserver comes and whatever window is open then. *)
ChatHasServer == InChat => active # 0

(* Once nothing is on its way the chat shows the channels and members of   *)
(* the server it is named after, however entering, leaving and answers to  *)
(* commands crossed, unless a server list refilled the slot under it.      *)
ChatIsOfServer ==
  /\ InChat
  /\ active <= count
  /\ ~refilled
  /\ ~InFlight({"list", "servers", "reply"} \cup Lists \cup Commands)
  => slots[active].list = slots[active].id

(* What this user does to the set of servers is on the screen in the end,  *)
(* once nothing is on its way.  What is missing there is what others did,  *)
(* a create that was refused halfway (create_tizcord_server) and what a    *)
(* list was cut short of (list_tizcord_servers), until the next list.      *)
OwnChangesAreListed ==
  ~outdated /\ ~InFlight({"list", "servers", "reply"} \cup Commands) =>
    /\ count = Min({MaxSlots, Cardinality(guilds)})
    /\ \A i \in 1 .. count : slots[i].id = ServerList[i]

(* A command window that says a request was sent has its answer coming:    *)
(* it is not left waiting by a refusal, by the answer to another command   *)
(* or because the user has closed and opened it meanwhile, but only when   *)
(* the status was set and the client does not know its own name by which   *)
(* the answer says that it was (SOCIAL_UPDATE_STATUS).                     *)
WaitHasAnswer ==
  waiting /\ ~(unheard /\ ~named) =>
    \/ \E k \in DOMAIN up : up[k].kind \in SlowKinds
    \/ \E k \in DOMAIN down : down[k].kind = "reply" /\ down[k].to \in SlowKinds

(* TAB divides by the number of channels.  It stops the client in a server *)
(* whose list has come without any, while that is on its way, in a slot    *)
(* that a list has refilled or left behind its end, and never else.        *)
TabStopsOnlyUnlisted ==
  [][~crashed /\ crashed' =>
       refilled \/ active > count \/ InFlight(Lists) \/ slots[active].list # None]_vars

(* README.md: the terminal stays "fully responsive": no key stops the      *)
(* client.                                                                 *)
TabResponds == ~crashed
=============================================================================
