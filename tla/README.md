# Tizcord in TLA+

Tizcord is a chat system in C: one server process with an SQLite database, and
an ncurses client, which exchange packets of one fixed size over TCP. This
directory holds TLA+ models of the server and of the client's state, the TLC
configurations that check them on small instances, and TLAPS proofs of their
main properties for every size.

To check everything by hand, in this directory:

    tlc -config MCSessions.cfg MCSessions        # likewise the other rows of "Runs"
    tlapm Server_proofs.tla                      # likewise the other *_proofs.tla

Paths below are relative to the repository.

## 1. Inventory

### 1.1 Components

| Component | Where | State it keeps | Operations |
|---|---|---|---|
| Event loop | `server/server.c` | `clients[]`/`num_clients`, `master_set`, `read_set`, `receive_offset` and the partial packet of each client | `handle_new_connection`, the scan of `run_server`, `disconnect_client`, dispatch by packet type |
| Packet I/O | `shared/packet_helper.c` | none of its own | `packet_send` (blocking), `packet_receive_partial` (non-blocking), byte order |
| Accounts and sessions | `server/auth.c` | `is_authenticated`, `id`, `username` of each `ClientNode`; table `users` | register, login (with `revoke_existing_login`), logout |
| Users, status, friends | `server/tizcord_social.c` | tables `users.status`, `friends` | list users, update status, five friend requests, the two pushes `notify_all_user_lists` and `notify_friend_list_update` |
| Servers and members | `server/tizcord_server.c` | tables `servers`, `server_members`; `current_server_index` of each client | create, delete, join, leave, kick, list servers / joined servers / channels / members, the push `notify_server_member_list` |
| Channels and messages | `server/tizcord_chat.c` | tables `channels`, `messages` | create, delete, message, history |
| Direct messages | `server/tizcord_chat.c` | table `direct_messages` | message, history |
| Database | `server/db.c`, `db/schema.sql` | the SQLite file: foreign keys with `ON DELETE CASCADE`, `UNIQUE`, row ids without `AUTOINCREMENT` | one function per statement |
| List streams | `server/client_helper.c`, the list handlers | `next_list_id`, the accumulators | START/MIDDLE/END/SINGLE frames of a list, errors and refusals in between |
| Client: signing in | `client/ui.c`, `client/client.c` | the forms, `users[]`, `user_count`, `current_user` | form keys, ESC, `ui_handle_auth_response` |
| Client: servers | `client/ui.c` | `servers[]`, `server_count`, `server_cursor`, `active_server`, the command window | server list and chat keys, commands, `ui_update_server_state` |
| Client: friends | `client/ui.c` | `ui_friends`, `friend_count`, `active_dm_friend`, `dm_input` | direct message keys, friend commands, `ui_update_friend_state` |
| Client: users, drawing | `client/ui.c` | `all_users[]`, `user_cursor`; the terminal | sort and cursor; ncurses output, line editing |

The server is **one thread**: a packet is handled to its end, with all its
database calls and all its sends, before the next is read. So handlers do not
interleave with each other. What is left to chance is the order in which
clients are served, what a peer has done between two system calls of the loop
(sent a part of a packet, stopped reading, hung up), when a client is replaced
by another on the same descriptor, whether a second statement of a handler
happened, when either process is restarted, and, between the server and the
screens, everything that is on its way in either direction.

### 1.2 Interactions

* The **event loop** calls one handler per packet; the handler gets an index
  into `clients[]`, which is only good until a client is removed.
* **Auth** changes identities; after each change it calls the two pushes, so
  that the user list of everybody and the member lists of the viewers of the
  user's servers are sent again. The friend push finds its client by `id` alone.
* **Server** handlers set `current_server_index` (who views which member list)
  and some of them call `notify_server_member_list`.
* The **database** does the rest of a delete by its cascades, and hands out the
  row id of a deleted last row again.
* The **client** files a message and every row of a history under whatever
  channel is active when it arrives: the packets' channel id is not looked at.
  The same holds of channel and member lists, which are taken for those of the
  active server, and of list rows, which are counted into the client's arrays.
* The **client** keeps indexes into arrays (`active_server`, `server_cursor`,
  `active_dm_friend`) that every new list refills from the first entry on.
* Keys work while answers are awaited: nothing is locked, so an answer meets
  whatever screen and form the user has moved to.

### 1.3 What is hard, and what makes each component correct

`PROJECT.json` lists every hazard at its line, with the property that covers it
or the reason none does yet. In short:

* *Event loop*: the array is changed while it is scanned, and `read_set` is
  older than the handlers that ran since. Correct: array, watched set and open
  descriptors agree; each ready client is served once a scan; no byte is lost or
  taken twice; a complete packet is handled in the end.
* *Sessions*: takeover of an account, also by a socket that was another account
  a moment ago. Correct: one session per account, identity fields agree, the
  peer knows, everyone's user list is the current one.
* *Servers*: half-made servers, admins who leave, cascades, reused ids.
  Correct: no orphans, nothing comes back with an id, at most one admin.
* *Member lists*: pushes that some handlers make and others do not. Correct:
  stated exactly, by naming the steps after which a list may be stale.
* *Friends*: requests that cross, two rows for one relation. Correct: one row
  per pair, a symmetric relation, the passive side is told.
* *Messages*: answers to outdated requests, echoes. Correct: a screen that has
  settled shows the rows of its channel once each and in order; a conversation
  misses and doubles nothing of the friend's.
* *List streams*: lists of every length cut to fixed arrays on both sides,
  errors in place of lists, refusals between them, an id counter that overflows.
  Correct: once nothing is on its way each array holds the list as it was last
  sent, as far as it goes, or nothing after an error; no two streams on their way
  have one id.
* *Signing in*: answers, takeover notices and lost connections that cross keys.
  Correct: the client is behind the login exactly when its connection is in an
  account, under that account's name, and the line under the form is true.
* *Client's servers*: late answers, refilled slots, a change of two statements of
  which one fails, a window that waits for an answer. Correct: the chat has a
  server and shows that server's channels and members, unless a list refilled
  the slot under it; what the user changed is listed, unless the server said that
  it was not changed; the window that waits has an answer coming.
* *Client's friends*: lists pushed in the middle of a conversation. Correct: the
  slots end up as the list, a conversation never holds another friend's
  messages, nothing but a list redirects what is typed.

## 2. Modules

| Module | Models | Abstracts |
|---|---|---|
| `Accounts` | the users and the id 0 of nobody, which `Sessions`, `Guilds`, `MemberLists` and `Friends` share | |
| `Sessions` | client table, accounts, user list, status | loop order, passwords (a guard) |
| `Guilds` | `servers`, `server_members`, `channels`, `messages` ("guild", because "server" is also the process) | texts of messages: a stored message is its (channel, author) |
| `MemberLists` | `Sessions` and `Guilds` composed, `current_server_index`, the member list each viewer holds | channels, messages, statuses |
| `EventLoop` | the `select` loop, partial receives, blocking sends, kernel buffers, peers | what handlers compute: they send to some set of clients |
| `Friendship` | the abstract relation of friends | |
| `Friends` | the `friends` table, its five requests, the lists pushed | sockets: a session per user (justified by `SingleSession`) |
| `Chat` | messages from keyboard to screens over FIFO links | creation of channels, sender names |
| `DirectMessages` | a conversation of two friends, with local echo, over FIFO links | further friends (`FriendSlots`), logout without a restart |
| `ListStream` | list ids, accumulators, frames, and the counting of rows by the client | what rows say: a row is its place and the version of its list |
| `ClientSession` | several terminals that sign in and out of a few accounts: forms, `users[]`, takeovers, lost connections | all packets but those of authentication |
| `ServerBrowser` | one client's `servers[]`, chat and command window, over FIFO links | frames of a list; messages; what the user may do on a server |
| `FriendSlots` | one client's `ui_friends`, the conversation on the screen, the draft, over FIFO links | texts, numbers of messages: a slot knows whose messages are in it |
| `Conversations` | what `Chat`, `DirectMessages` and `FriendSlots` have in common: the rows a `WHERE` clause leaves (`Only`), the packets they become, the screen after a number of packets | |
| `MC*` | instances for TLC | |
| `Server_proofs` | proofs about `Sessions` and `Guilds` | |
| `Lists_proofs` | about `MemberLists`, `Friends` and `ListStream`: the lists the server sends | |
| `Connection_proofs` | about `EventLoop` and `ClientSession`: the two ends of a connection | |
| `Chat_proofs`, `DirectMessages_proofs`, `FriendSlots_proofs` | about the module of the name, on the lemmas of `Conversations_proofs` | |
| `ServerBrowser_proofs` | about `ServerBrowser` | |

A module that shares a proof module with another has its specification under a
name of its own (`GuildsSpec`, `MembersSpec`, `FriendsSpec`, `LoopSpec`, with
`...Init`, `...Next`, `...TypeOK`).

### 2.1 Sessions

One action per handler. `client[fd]` is the pair (`is_authenticated`, `id`) of
the `ClientNode`; a user stands for row id and name at once (the name is
`UNIQUE`). `userList[fd]` and `told[fd]` are what the peer has been sent: the
last user list (with the single-row updates of `SOCIAL_UPDATE_STATUS` applied,
the way the clients apply them) and the last identity. They make the pushes
observable, which is where the handlers can go wrong. A refused request (wrong
password, taken name, no login) changes nothing and is a stutter.
`Restart` empties the table and keeps the database.

### 2.2 Guilds

The tables are functions of the row id; `NoName`/`NoChannel`/`"none"` mean "no
row". `IsNextRowid` is SQLite's choice of an id. `CreateServerHalf` is
`db_create_server` after whose first committed statement nothing happened: the
insert of the member failed, or the process died. `LeaveServer` succeeds
without a row, as in the code. Requests with user id 0 (no login is needed for
channel packets) are offered to the channel handlers and refused by the tables.

### 2.3 MemberLists

`MemberLists` instantiates `Sessions` and `Guilds` and conjoins to each of
their actions what the handler does to `viewing` (`current_server_index`) and
which member lists it sends. `JoinServer`, `LeaveServer`, `LoginAccount`,
`LogoutAccount` and `Disconnect` send them; `CreateServer`, `DeleteServer`,
`KickServerMember` and `RegisterAccount` do not.

### 2.4 EventLoop

The only module below the granularity of a packet: a packet is `PacketLen`
bytes, `inbox` counts the bytes that wait in the kernel, `outbox` the packets a
peer has not read. The loop is split at the system calls where the rest of the
world can act: `Select`, `Accept`, one `Skip` / `ReceivePacket` /
`ReceivePart` / `LoseClient` per entry of the array, `Send` per recipient of a
handler. `sent`, `handled` and `scanned` are history. A `MSG_DONTWAIT` receive
of several calls is one step: nothing distinguishes bytes that come in its
middle from bytes that come before it.

### 2.5 Friends and Friendship

`row[a][b]` is the row whose `user_id` is a and `friend_id` b. The client asks for its own list
after each request, so only the other side depends on the push; `NotAsked` is a
client whose screen has no list to be stale. `Friendship` says what the requests
promise; `bondOf` reads it off the two rows between two users.

### 2.6 Chat

Each client has a FIFO link up and one down (TCP). The server takes one request
per step, the client one key or one packet. `shown` keeps, per channel, what the
client appended to it; it drops what does not fit (`MAX_MESSAGES`). Saving a
message may fail after its broadcast. Left out: typing before a client has a
channel list (the code then has no channel to address), `END` frames, and the
order of rows saved in the same second, where the query leaves the order to
SQLite (which keeps the row order the model uses).

### 2.7 DirectMessages

Like `Chat`, for one conversation. The differences are the code's: the sender
sees its message when ENTER is pressed (`Type`), the server delivers it to the
other side only, if there is a client with that id (`Deliver`), and a message is
filed under its friend, if the friend is in the list. The friend list comes when
the screen is opened, and also unasked (`PushList`: somebody's friend request);
on the screen of direct messages it makes the client ask for the history again.
`opened` and `hasty` are history: whether a history answer has begun to come in,
and which messages were typed while one was asked for and had not begun.

### 2.8 ListStream

Every kind of list is read from the database at one moment, cut to the
accumulator's capacity (`AccCap`), given an id by `allocate_list_id` and sent as
frames: an empty SINGLE, a SINGLE, or START, MIDDLE..., END; the friend lists,
made from `create_base_packet`, have START and END frames without a row. The
client starts over at START or SINGLE and counts rows into an array of `UiCap`
entries. `send_action_response` answers a request of a client without a login
(`Refuse`) and one whose query failed (`FailedQuery`) with a packet whose
`list_frame` and `list_total` are 0, which reads as a SINGLE without a row
(`ErrorFrame`): it empties the array, and an empty list is what is then `due`. A
friend list is not checked for errors, so a failed query leaves START and END
with the rows up to the failure, which is one of the lengths `StreamFriends`
sends. (The collectors stop the same way: a row at which the query stops is the
end of the list.) The id counter is a signed integer of width
`2 * HalfIds`; the increment past the largest value is undefined in C and is
modelled as the wrap that the build gives, after which the test for a
non-positive value sets the counter back to 1.

### 2.9 ClientSession

`ui[c]` is the client state of terminal c, `login[c]` the account its connection
is in at the server. Keys are offered at any time, up to `MaxAsked` requests on
their way. `calm` (no key was pressed while an answer was awaited) and `taken`
are history: the own name is read from the form when the answer comes, so a key
pressed meanwhile can make it wrong, and the second of two ENTERs finds the form
empty. A login past the last entry of `users[]` is undefined behaviour in C:
the model marks the terminal (`Overrun`) and lets it do nothing more. The end of
a client, the server's end and the loss of the connection are three actions
each, so that a request can be lost at either end.

### 2.10 ServerBrowser

A slot holds a server id, whose list it has and, for channels, whether there are
any; which of the two lists of a server a behaviour is about is chosen in `Init`
(`followed`), since the code keeps them apart. TAB takes a remainder by the number
of channels: with none it traps on x86, modelled by `crashed` and a restart.
`SignInAgain` is a logout and login at a quiet moment; what may cross one is
`ClientSession`'s subject.

Each request of a command has its handler at the server (`HandleCreate`,
`HandleLeave`, `HandleDelete`, `HandleChannel`, `HandleKick`, `HandleStatus`), and
the database may fail in each. A create that inserts the server and fails to
insert its first member leaves the server there and answers with an error, which
the client ignores: nothing asks for the list again, and the user's server stays
off the screen until the next one. A list may be cut short by a failed step, or
be empty because the query could not be made; a refused leave leaves the server
believing that the client is where it was. `outdated` is history: whether the
list sent last was cut short, or others, or such a create, have changed the
servers since.

Five commands keep their window open for the answer (`SlowKinds`). For four the
answer is theirs by its type. That to `/setstatus` is the update everybody is
sent, and the client takes it for its own by the name in it. The name it has put
down for itself may be wrong (`NameIsAccount`); `named` says whether it is right.
If it is not, the window goes on saying "Updating status..." after the answer
(`ReceiveUnheard`, with the history `unheard`), and closes when the user of that
name sets a status (`PushNamesake`). `WaitHasAnswer` states that exception and
that there is no other. The list of users that is asked for after an update of
the own status belongs to another screen and is left out.

### 2.11 FriendSlots

The `friends` table is kept in the order of its rows, since that is the order of
the slots. The client processes one list frame per step, and `draw_dms`, which
picks a friend when there is none, may or may not run between two steps.
`draft` remembers for whom the text was begun. TAB without a friend to go to
divides by zero or loops (`stuck`).

## 3. Runs

Each row is `tlc -config <cfg> <module>`; all of them end within about two
minutes on two cores. The module's `TypeOK` is listed where a proof or a bound of
the code hangs on it; in the other modules it serves as documentation of the
state, and was checked by adding it to the configuration.

| Run | Instance | Checks | Shows |
|---|---|---|---|
| `sessions` (`MCSessions`) | 4 descriptors, 3 users, 2 texts, table of 3 | `TypeOK`, `SessionIdentity`, `SingleSession`, `UserListFresh`, `PeerIsTold`, `OneSessionPerStep` | no order of connections, registrations, logins, takeovers, switches of account, logouts, losses and restarts gives an account two sessions, a peer that does not know who it is, or an outdated user list |
| `guilds` (`MCGuilds`) | 3 users, 2 names, 2 server ids, 2 channel ids | `NoOrphans`, `OneAdmin`, `ReusedIdIsClean`, `OwnerlessForGood` | cascades leave nothing, a reused id starts clean, and a server that lost its admin is frozen: nobody can delete it or free its name |
| `member_lists` (`MCMemberLists`) | 3 descriptors, 2 users, 1 server id (used again) | `OnlySessionsView`, `StaleOnlyUnannounced` | the complete list of steps after which a viewer's member list may be stale: kick, delete, the (re-)creation of a server, and a socket that logs in or registers as someone else |
| `kick` (`MCKick.cfg`) | same | `KickDisconnects`, violated | the finding of 3.4 |
| `event_loop` (`MCEventLoop`) | 3 descriptors, table of 2, packets of 2 bytes, 3 bytes per connection, `FairSpec` | `LoopTypeOK`, `ArrayIsMaster`, `BytesAreAccounted`, `ScanIsFair`, `ReadinessHolds`, `PacketsAreHandled` | the array can be changed under the scan, descriptors reused and packets cut anywhere without losing, doubling or misattributing a client or a byte; and a complete packet is handled, whatever the other peers leave half sent |
| `friends` (`MCFriends`) | 3 users | `FriendsTypeOK`, `OneRowPerPair`, `StaleOnlyByOwnRequest`, `FriendsByConsent`, `ImplementsFriendship` | nobody is made a friend unasked, the five handlers implement `Friendship`, and push every change to the side that did not ask |
| `chat` (`MCChat`) | 2 clients, 2 channels, 2 messages kept, 2 typed, 2 requests under way | `ScreenIsHistory` | a screen on which the last history has begun to arrive shows its channel's rows from the first on, once each and in order |
| `direct_messages` (`MCDirectMessages`) | 2 clients, 3 messages typed, 2 kept, history of 1, 2 requests under way | `TheirsArrive`, `NothingTwice`, `MineStay` | an open conversation has or will have everything the friend said, in order; nothing twice; and of one's own messages all but those typed while a history was under way, which the answer may wipe out |
| `list_stream` (`MCListStream`) | arrays of 1 to 3 entries, lists of 0 to 4 rows, 2 versions, ids of width 8 | `ListsArriveWhole`, `IdsTellStreams` | lists of every length and kind, with errors, refusals and sign-outs between them, reach the client's arrays whole, and ids tell streams apart also when the counter wraps |
| `client_session` (`MCClientSession`) | 2 terminals, 2 names, 1 password, `users[]` of 2 | `LastWord`, `NameIsAccount`, `NoteIsTrue` | with keys pressed while answers are on their way, takeovers, lost connections and restarts on either side, client and server agree in the end on who is signed in |
| `server_browser` (`MCServerBrowser`) | 2 servers, 2 slots, 2 requests under way | `ChatHasServer`, `ChatIsOfServer`, `OwnChangesAreListed`, `WaitHasAnswer`, `TabStopsOnlyUnlisted` | late answers, member lists pushed by where the server believes the client to be, lists that refill the slots and failures of the database do not mix up servers; what the user changed is listed and a waiting command has its answer coming, each with its exceptions; and the complete list of causes for which TAB stops the client |
| `friend_slots` (`MCFriendSlots`) | 2 other users, 2 slots, 2 requests under way, link of 4 packets | `SlotsAreTheList`, `SlotIsConversation`, `OnlyListsRedirect` | lists that refill the slots under an open conversation, one frame at a time, put nobody's messages under another's name, and nothing else moves what is being typed |

### 3.1 Bounds, and why they are enough

* *Sessions*: one descriptor more than the table holds, so that the refusal of
  a connection and the reuse of a descriptor happen; three users on three
  sockets is the smallest instance in which a takeover has a bystander.
* *Guilds*: `MaxServerId` and `MaxChannelId` bound the row ids. With two ids
  per table, an id is reused while another row exists, and is not when it is
  not the last. A third user is a bystander to an admin and a member.
* *MemberLists*: one server id that is deleted and created again is the
  interesting case of `current_server_index`; two servers would only multiply
  it, because no handler relates two servers except through the member's
  (`JoinedServers`), which treats each alone. `MaxChannelId = 0` and one text
  switch off what this module does not use.
* *EventLoop*: a packet of two bytes is the smallest that can be cut; three
  bytes are a packet and a half. The table has room for two of three
  descriptors. `OutCap = 1` makes a send block after one packet; `MaxBacklog`
  is the number of connections waiting at once. The invariants were also
  checked once with five bytes, two packets and a half, and `PacketsAreHandled`
  with two descriptors and five bytes (660,000 states, four minutes).
* *Friends*: every request concerns two users; the third is the bystander.
* *Chat*: `MaxMessages = 2` fills a channel; `MaxPosts` bounds what is typed,
  `MaxRequests` what one client has asked and not been answered, so an answer
  crosses one later request. The constraint `QuickKeepsUp` and the view are
  described in `MCChat`: the second client's link is kept short because the
  first, and the broadcast to it, is what the property is about. The property
  was also checked once with both clients unconstrained (8.7 million states)
  and once with three messages (6.6 million), which is too long for every day.
* *DirectMessages*: three messages overflow both the screen and the history.
  `MCDirectMessages` keeps the second client's links short, as `MCChat` does.
  Once, with two messages, both clients were left unconstrained (4.3 million
  states).
* *ListStream*: the client's arrays are smaller than the server's, as in the
  code, and lists longer than both (`MaxRows`). The counter starts at 1 or just
  before its wrap. One stream or refusal may be on its way when the next request
  comes (`MaxDown`), one packet of an older login may come late (`MaxLate`).
* *ClientSession*: two terminals are a session and the one that takes it over;
  `MaxAsked` two requests of one terminal cross, `MaxTogether` two of all.
  `WholeForms` has people pause with both fields filled or both empty.
  `users[]` of two overflows at the third login.
* *ServerBrowser*: two servers are the one in the slot and the one that takes
  it. The user makes and deletes both, the others the one that comes first in
  the list (`Shared`), so that the other one moves. `MaxRequests` counts what is
  on its way in both directions when a key is pressed; the requests that answers
  lead to come on top. A client that goes by its own name follows channels and
  one that goes by another's follows members (`MCInit`): no step is about the
  name and a list of details at once. The proofs are about `Spec`, with every
  combination.
* *FriendSlots*: two users are the friend in view and the one who takes the
  slot; `MaxDown` cuts behaviours with more than one list and a half on the link.

`SYMMETRY` is used on safety properties only, over constants that the model
treats alike. `VIEW` in `MCMemberLists` leaves out variables that the module's
actions and properties never read (the user lists and what peers were told);
`MCSessions` checks those. The views of `MCChat` and `MCDirectMessages` leave
out the screen of the client that keeps up. Those of `MCClientSession`,
`MCServerBrowser` and `MCFriendSlots` leave out the state of a client that has
ended or failed and can only be started again, and slots that are refilled
before they are looked at; that of `MCServerBrowser` also makes one of requests
and answers that are handled alike, and leaves out a history while what will set
it is on its way. Each says so.

### 3.2 Fairness

Only `FairSpec` of `EventLoop` has any. `WaitHasAnswer` and `NoteIsTrue` say of
the client's waiting what needs no fairness: that the request or its answer is
on the way. That it gets through is `PacketsAreHandled`.

* `WF_eventLoopVars(Server)`: the process runs whenever its loop is not blocked. It is
  one thread, one disjunction: no fairness among clients is assumed, the scan
  has to provide it.
* `WF_eventLoopVars(PeerReads(f))`: a peer goes on reading what it is sent. The client
  does (its loop reads whenever `select` says so), a stopped process does not.
  This one is needed: the sends are blocking, and TLC refutes
  `PacketsAreHandled` without it: one peer that does not read stops the server
  for all, as `README.md:35` of the repository says.
* No peer is obliged to connect, to send, to complete a packet or to hang up.

### 3.3 Mutants

For every property of a passing run `PROJECT.json` names a definition and a
mutated form of it, kept next to the original and marked `Mutant`, that a
plausible slip in that code would give (a dropped reset, an off-by-one, a push
before the change, a lookup in the wrong direction). TLC finds the property
violated when the mutant takes the definition's place. No specification here
uses a mutant.

### 3.4 Findings

**A kick does not disconnect** (run `kick`, `MCKick.cfg` of `MCMemberLists`;
`server/tizcord_server.c:528`). `README.md:113` has `/kick` "Forcibly disconnect
and remove a user from the active server". `kick_server_member` deletes the row
and answers the admin. The user's client is neither disconnected nor told; it
goes on viewing the server and is sent its member lists, and the other viewers
keep the old one.

Further disagreements between the code and what the repository says of it, each
with a configuration in this directory under which TLC prints a counterexample:

| Configuration, module | Property | The code, and what is said |
|---|---|---|
| `MCFragment.cfg`, `MCEventLoop` | `FragmentStalls` | `README.md:35` says "a slow or fragmented peer can still stall the event loop". Reads are not blocking any more (`packet_helper.c:121`); writes are. `PacketsAreHandled` is the positive statement. |
| `MCSentAsTyped.cfg`, `MCFriendSlots` | `SentAsTyped` | `ui.c:104` calls `active_dm_friend` "The index of the friend we are chatting with". A friend list pushed while somebody types sets it to the first friend of the new list (`ui.c:1651`) and keeps the draft: ENTER sends the text to another friend. |
| `MCTabResponds.cfg`, `MCFriendSlots` | `TabResponds` | `ui.c:2099` has TAB "Cycle through accepted friends". When the last friend is gone from the list `active_dm_friend` stays: TAB divides by zero (no rows) or never returns (requests only), `ui.c:2101`. |
| `MCChatTab.cfg`, `MCServerBrowser` | `TabResponds` | `README.md:28` has the terminal "fully responsive". TAB in the chat divides by `channel_count` (`ui.c:898`), which is 0 until the channel list has come, after a refreshed server list, and in a server without channels. `TabStopsOnlyUnlisted` says that these are all the cases of the chat (the direct messages are `MCTabResponds.cfg`). |
| `MCUsersArray.cfg`, `MCClientSession` | `IndexInUsers` | `ui.c:83` calls `current_user` "index into users[]", which has 16 entries. Every login takes a new one (`ui.c:959`) and none is given back: the seventeenth of one process writes past the end. |
| `MCMemberScan.cfg`, `MCListStream` | `ScanStaysInside` | `README.md:37` has the list frames "maintain memory safety and prevent buffer overflows". `member_count` is the database's number until a member list comes (`ui.c:1144`), and `/kick` scans `member_names[16]` by it (`ui.c:1413`). |
| `MCListHeader.cfg`, `MCListStream` | `HeaderAsDocumented` | `protocol.h:150` has `list_index` "-1 when not applicable". START and END of a friend list, which carry no item, have 0 (`tizcord_social.c:136`). |

Not findings, since nothing in the repository says otherwise, but worth a
reader's attention:

* a login that switches the account of a socket leaves the viewers of the old
  user's servers with a stale list (an exception of `StaleOnlyUnannounced`);
* a server whose admin left can never be deleted (`OwnerlessForGood`);
* a message that could not be saved is shown to everybody and gone after the
  next reload; a message of another channel shows up in the active one and may
  take the place of a row when the channel is full (`ScreenIsHistory` speaks of
  the stored rows of the channel for that reason); a message sent before the
  channel list has come goes to channel id 0;
* a direct message typed while a history is under way, which a pushed friend
  list can cause at any time, may vanish from its author's screen until the next
  history (the exception of `MineStay`);
* ENTER pressed twice on the login form leaves the client with an empty own name,
  and ESC pressed twice tells it that it was "logged in elsewhere" (the
  exceptions, `calm`, of `NameIsAccount` and `NoteIsTrue`); "Authenticating..."
  stays for good once the connection is lost;
* a late answer to `/leaveserver` takes the user to the server list from wherever
  they are, a late success closes a command window in which another command is
  being typed, and the answer to a delete has no server id, so the chat of the
  deleted server stays open; `server_cursor` may point past a shorter list;
* the refusal of a friend list adds a row without a friend, until the next list,
  and a failed query empties the list it was for;
* a create that fails halfway is refused and its server is there: the user who
  made it neither sees it nor can delete it (the exceptions of
  `OwnChangesAreListed` and `OwnerlessForGood`);
* a client that goes by another name than its account's (see `NameIsAccount`)
  stays at "Updating status..." after `/setstatus`, until somebody types (the
  exception of `WaitHasAnswer`).

And `client/ui.c:2204` tests `recv_status`, which is declared nowhere (the line
before sets `bytes_read`): the client is modelled as if the test were of
`bytes_read`.

## 4. Proofs

The theorems hold for every value of the constants, from the assumption named in
each module:

| Assumption | Asks for |
|---|---|
| `AccountsAssumption` | `NoUser` is no user |
| `SessionsAssumption` | finitely many descriptors; `NoText` is a text; a table of at least one entry |
| `GuildsAssumption` | `NoName` is no name; natural bounds |
| `MemberListsAssumption` | both of the above, for the constants they are instantiated with |
| `EventLoopAssumption` | a table, a packet and a buffer of at least one; natural bounds |
| `ListStreamAssumption` | arrays of at least one entry; at least two positive ids; natural bounds |
| `ClientSessionAssumption` | `Empty` is no name and no password; `users[]` and the bound on requests at least one |
| `ServerBrowserAssumption` | a finite set of row ids, `Shared` among them and `None` not; at least one slot |
| `ChatAssumption` | at least one channel, room for at least one message; natural bounds |
| `DirectMessagesAssumption` | the two sides of a conversation; room for at least one message, and for a whole history answer; natural bounds |
| `FriendSlotsAssumption` | finitely many users, `None` not among them; at least one slot; natural bounds |

`Friends` asks for nothing more. The proof about the ids is what brought "at least two
positive ids" to light: with one, every list has the same id.

| Theorem | States | Argument |
|---|---|---|
| `Server_proofs!Typing` | `[]TypeOK`, with `Cardinality(open) <= MaxClients` | inductive alone: the table takes a descriptor only below its capacity |
| `!Identities`, `!OneSession`, `!PresenceFresh`, `!PeersTold` | the four safety invariants | `IInv`, their conjunction, is inductive on top of `TypeOK` |
| `!StepsTouchOneSession` | `OneSessionPerStep` | from `SingleSession`: a login revokes at most one session |
| `!GuildsTyping`, `!Integrity`, `!UniqueNames`, `!SingleAdmin` | the four invariants of `Guilds` (`GuildsTypeOK` and `NamesAreUnique` are not in the run, since the proof has them for every size) | inductive together: `OneAdmin` needs `NoOrphans`, so that the creator of a server finds nobody in it |
| `!ReuseIsClean`, `!OwnerlessStays` | the two action properties | a new id has no rows that refer to it (`NoOrphans`); without an admin no guard of a change holds (`GuildsTypeOK` alone) |
| `Lists_proofs!ImplementsSessions`, `!ImplementsGuilds` | `MembersSpec => S!Spec`, `MembersSpec => G!GuildsSpec` | each step of the composition is a step of the component or leaves its variables alone |
| `!MembersTyping`, `!ViewersAreLoggedIn` | `[]MembersTypeOK`, `[]OnlySessionsView` | the components' invariants come from their theorems by the two refinements; what is left is `viewing` and the lists |
| `!ViewersAreKeptFresh` | `StaleOnlyUnannounced` | per step: who may have changed (a member, a session) is among those the push reaches, or the step is one of the exceptions |
| `!FriendsTyping`, `!OneRow` | `[]FriendsTypeOK`, `[]OneRowPerPair` | inductive together: a request writes a row only where `AreFriends` and the pending test have excluded the other direction |
| `!Consent` | `FriendsByConsent` | an accepted row is made from the pending row of the other side only |
| `!OthersKeepListsFresh` | `StaleOnlyByOwnRequest` | a request touches no row of a third, and pushes to the second |
| `!Refinement` | `FriendsSpec => ImplementsFriendship` | each request changes the two cells of one pair (`TwoCells`), so `bondOf` changes for that pair (`BondSet`), by the step of its name |
| `!Typing` | `[]TypeOK` of `ListStream` | inductive alone |
| `!ListsArrive` | `[]ListsArriveWhole` | `Arriving`: what is on its way leads from the screen there is to one that is right |
| `!IdsTell` | `[]IdsTellStreams` | `Follows`: the counter is one past the id of the last stream on its way; `NextIdIsAnother` has the wrap |
| `Connection_proofs!LoopTyping`, `!NobodyLost`, `!NoByteLost`, `!ReadsAreNotWasted`, `!FairScan` | the five safety invariants | `LoopInv`: types, array, bytes and readiness, inductive with `Forgotten` and `Pending` (below), from which `ScanIsFair` follows |
| `!Typing` | `[]TypeOK` of `ClientSession` | inductive alone |
| `!TheLastWordStands`, `!TheNameIsTheAccount`, `!TheNoteIsTrue` | `[]LastWord`, `[]NameIsAccount`, `[]NoteIsTrue` | `Sound` of every terminal |
| `ServerBrowser_proofs!Typing`, `!ChatIsSafe` | `[]TypeOK`, `[]ChatHasServer` | inductive with `SlotsNamed`: whatever slot can be entered has been filled |
| `!ChatIsTrue`, `!OwnChangesAreSeen`, `!NobodyWaitsInVain` | `[]ChatIsOfServer`, `[]OwnChangesAreListed`, `[]WaitHasAnswer` | `Entered`, `ListingComes`, `AnswerComes` |
| `!TabStops` | `TabStopsOnlyUnlisted` | an action property, from `TypeOK` and `SlotsNamed` |
| `Chat_proofs!Typing` | `[]TypeOK` | inductive alone |
| `!ScreensFollow` | `[]ScreenIsHistory` | `Posted` and `Following`: the history asked for last is of the channel in view, and once it is answered what is coming up is what is stored |
| `DirectMessages_proofs!Typing` | `[]TypeOK` | inductive with `Connected`: only who is logged in is sent something |
| `!NoneTwice` | `[]NothingTwice` | `Posted`: a message that waits at the server is on its author's screen and nowhere else, so that delivering it doubles nothing |
| `!FriendIsHeard` | `[]TheirsArrive` | per step, what it makes of the rows of the friend among what comes up (`Seen`) |
| `!OwnStay` | `[]MineStay` | `Waits`: a line that was typed with no history under way is in the table before any history is answered |
| `FriendSlots_proofs!Typing` | `[]TypeOK` | inductive with `Filled`: a slot in use has a user |
| `!ListsRedirect` | `OnlyListsRedirect` | `Filled`: until a list comes the draft's slot keeps its user |
| `!SlotsFollowTable` | `[]SlotsAreTheList` | `Listing`: `Followed` and `Follows` (below) |
| `!SlotsShowFriend` | `[]SlotIsConversation` | `Opened`, `IdsOnce` on top of `Listing` (below) |

### 4.1 The strengthenings, and why they are needed

* `Sessions`: that a new connection leaves everybody's user list right needs
  that a closed descriptor has no identity, which is `SessionIdentity`; that a
  status update changes one row needs that the id of an authenticated client is
  an account. `SingleSession` in turn needs `SessionIdentity` for registrations:
  no session can have an account that does not exist.
* `Friends`: typing says that a user without a session holds no list, which is
  what lets a push be skipped for them.
* `EventLoop`: a removal in the middle of the array shifts the entries the scan
  has not reached. `Pending` says of these that none has been looked at and
  that, with those that have, they are all the ready ones. `Forgotten` says that
  nothing of a closed descriptor is left, so that taking the number again starts
  from zero bytes.
* `ServerBrowser`: the properties hold with nothing on its way, and say nothing
  of how one gets there. `Entered` says that the last request for a list on the
  way up is for the active server, or the last such list on the way down is its
  own, or the slot has it; `ListingComes` and `AnswerComes` say likewise of the
  list of servers and of the answer to a command. The list that will come to be
  the screen is the last on the way down: what `outdated` says is said of it.
* `ClientSession` and `ListStream` speak of a client that has read what is on
  its way. Their invariants are about that client at every moment. A request or
  a list adds at the end, reading takes from the front, and neither may change
  where it all ends but by what was added. In `ClientSession` the states in
  between matter too: a takeover notice must find the client behind the login
  (`NoticesEnd`), and outside it there is no name (`Nameless`). In `ListStream`
  only the end does, with one addition: while no list of servers has been sent
  in a session, no server is on the screen, so that channels and members that
  come are dropped (`Right`).
* `Chat`: the property is about a client whose last history has begun to come
  in. `Following` says what leads there: of the requests on their way the last
  history is for the channel in view, and once there is none, what comes up
  after the last start frame is what is stored, or the screen already holds a
  beginning of it and the rest is on its way. A
  message that is handled must be new everywhere, or a broadcast would meet its
  own row: that is `Posted`, by the numbers that `Post` gives.
* `DirectMessages`: the echo makes a message known on one screen before the
  server has it. `Posted` separates the messages that wait (on their author's
  screen only) from those that are known (in the table, on the way, on
  screens). `Waits` orders a message typed with no history under way before the
  next history; `hasty` are the others.
* `FriendSlots`: the slots are the table once no list is on its way, but every
  command changes the table before a list tells. `Followed` says that a command
  has a request for the list behind it in the client's queue. `Follows` says of
  the list frames on their way, unless a list is yet to be asked for, that they
  end with the whole list, or are the rest of it while the slots hold what came
  before, or are none and the slots hold it all. For the conversation, `Opened`
  says that with no list about, the active slot shows its own friend's messages
  or the history of its friend was asked for; that the start frame of the
  history then empties this slot and no other needs that no user is in two rows
  of the table (`IdsOnce`). Both were checked by TLC on the bounds of
  `MCFriendSlots` first (1.3 million states).

`Conversations_proofs` has the laws of `Only` and `Screen` that the last three
stand on: how a filter and a screen grow with one element (`OnlyAppend`,
`ScreenAppend`), over a concatenation (`OnlyJoin`, `ScreenJoin`), from a start
frame on (`ScreenStart`), and what becomes of prefixes, suffixes and sequences
without repetition. They hold for all sequences by `SeqInduction`, which takes
the sequences a law holds of as a set and so needs no operator argument.

The client's readings in `ClientSession` are a recursive function. That it
satisfies its equations, and what holds of all its values, is proved without the
library's induction rules (they take an operator as a parameter): from the least
element of a set of numbers (`HasLeast`, `Onwards`), which the well-foundedness
of finite subsets gives. The proofs about `ListStream` need no induction: `Leads` says
that there are screens to pass through, and the lemmas construct them.

The proofs changed the models in a few places. `ServerBrowser` had a `CASE` with
two guards true at once, whose value TLA+ leaves open; TLC had taken the first.
`Settled` in `ClientSession` and `IdsTellStreams` in `ListStream` were stated
with folds or filters of sequences, whose operator arguments the provers cannot
instantiate, and say the same without. So did the queries and the properties of
`Chat`, `DirectMessages` and `FriendSlots`, which now filter with `Only`: by
membership of a set. `ListStream` got its bound on ids, `DirectMessages` the
assumption that a conversation has two sides, `FriendSlots` that its users are
finitely many (the friends that TAB goes round are counted).

### 4.2 Only model-checked

* `PacketsAreHandled`, the one liveness property: TLAPS proves no liveness under
  fairness.
* The properties the code does not have (3.4): there is nothing to prove.

## 5. Not modelled

* *Drawing and line editing*: ncurses output. The one assignment a draw function
  makes to the state is in `FriendSlots`.
* *The users screen* (`all_users[]`, its sort, `user_cursor`) and `friend_cursor`,
  `/help`: no other state depends on them.
* *Byte order and the client's blocking read* (`swap_packet`, `packet_receive`): a
  data conversion, and a loop that keeps no state between packets.
* *TLS helper, start-up, benchmark*: I/O without a protocol of their own; the
  send and receive paths do not use `tls.h`.
* The order of messages saved in the same second (`db.c:717`), which the query
  leaves to SQLite; the wording of status lines; `send_list_item_response` and
  `send_list_end_response`, which nothing calls; `tizcord_servers[]` of the
  server context, which is declared and not used by the handlers.
* Some failures of the database. In `ClientSession` a free name is registered:
  `auth.c:114` refuses it when the insert fails, with the answer of a name that is
  taken. In `MemberLists` the query of a member list succeeds: when it fails the
  viewer gets the empty list that `ListStream` has. In `Friends`, `FriendSlots`,
  `Chat` and `DirectMessages` a list or a history that is read is whole, up to its
  limit. (Failures to write are in `Guilds`,
  `ServerBrowser`, `Chat` and `DirectMessages`.)
* In `ServerBrowser` the own name stays right or wrong for a whole behaviour, over
  `SignInAgain` too, after which no window waits.
* In `ServerBrowser` and `FriendSlots`, a logout while something is on its way:
  `ClientSession` has that for the authentication packets, `ListStream` for lists.

## 6. Plan

Done in this version: `Sessions`, `Guilds`, `MemberLists`, `EventLoop`,
`Friends` with `Friendship`, `Chat`, `DirectMessages`, `ListStream`,
`ClientSession`, `ServerBrowser`, `FriendSlots`; and the proofs of every safety
invariant and action property that a passing run checks, and of three refinements
(`Sessions` and `Guilds` by `MemberLists`, `Friendship` by `Friends`).

What could come next:

1. `Chat` with channels that are created and deleted, from `Guilds`: a history
   answer for a channel id that has become another channel.
2. A refinement between `DirectMessages` and `FriendSlots`: that the second, seen
   through its active slot, behaves like one side of the first.
3. `FriendSlots` with a logout while packets are on their way, as in
   `ClientSession`.
