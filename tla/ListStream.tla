----------------------------- MODULE ListStream -----------------------------
(***************************************************************************)
(* How a list travels: the accumulators the server collects rows in, the   *)
(* frames it cuts a list into, the header of each frame, and the counting  *)
(* by which the client puts the rows back into its arrays.                 *)
(*                                                                         *)
(* The client does not look at list_id or list_index.  It starts a list    *)
(* over when a frame says START or SINGLE and adds a row per frame after   *)
(* that, so everything hangs on the frames of a list being sent whole and  *)
(* in order, which the single thread of the server and the ordered link    *)
(* give.  ServerBrowser, FriendSlots and MemberLists rely on it and treat  *)
(* the lists they are about as one message.                                *)
(*                                                                         *)
(* A list is described by its length and by a version that tells the rows  *)
(* of one time from those of another.  The client is inside its first      *)
(* server: "channels" and "members" are the lists in that slot.            *)
(***************************************************************************)
EXTENDS Integers, Sequences

CONSTANTS
  AccCap,      \* rows an accumulator holds (MAX_SERVERS, MAX_CHANNELS, ...)
  UiCap,       \* rows the client's array holds (UI_MAX_SERVERS, ...)
  MaxRows,     \* bound: rows of a list in the database
  Versions,    \* states of the database that are told apart
  HalfIds,     \* list ids are -HalfIds .. HalfIds - 1 (2^31 in the code)
  MaxDown,     \* bound: a list is sent when at most so many frames wait
  MaxLate      \* bound: requests that reach the server after a sign-out

(* The lists of send_list_response, and the one with frames of its own. *)
Collected == {"servers", "channels", "members"}
Kinds == Collected \cup {"friends"}

ASSUME ListStreamAssumption ==
  /\ AccCap \in [Collected -> Nat \ {0}]
  /\ UiCap \in [Kinds -> Nat \ {0}]
  /\ {MaxRows, MaxDown, MaxLate} \subseteq Nat
  /\ HalfIds \in Nat \ {0, 1, 2}   \* with fewer than two positive ids no two lists differ

VARIABLES
  signed,      \* the connection is in an account
  late,        \* requests sent before the client knew it was signed out
  nextListId,  \* next_list_id
  down,        \* frames on their way to the client
  shown,       \* per kind, the rows in the client's array
  memberCount, \* member_count of the first server
  scanned,     \* the furthest entry of member_names that /kick has read
  due          \* history: per kind, the list last sent, cut to what fits

vars == <<signed, late, nextListId, down, shown, memberCount, scanned, due>>

Blank == [version |-> 0, at |-> 0]
Rows == [version : Versions, at : 1..MaxRows] \cup {Blank}
RowsOf(n, v) == [i \in 1..n |-> [version |-> v, at |-> i]]

(* The first n rows of a list L. *)
Cut(L, n) == SubSeq(L, 1, IF Len(L) < n THEN Len(L) ELSE n)

(* Nothing was sent since the client signed in. *)
Unsent == <<Blank>>

Packets ==
  [kind : Kinds, row : Rows, members : 0..MaxRows, id : (-HalfIds)..(HalfIds - 1),
   index : Int, total : Int, frame : {"single", "start", "middle", "end", "logout"}]

TypeOK ==
  /\ signed \in BOOLEAN
  /\ late \in 0..MaxLate
  /\ nextListId \in (-HalfIds)..(HalfIds - 1)
  /\ down \in Seq(Packets)
  /\ \A i \in 1..Len(down) : down[i].kind \in Collected => down[i].total <= AccCap[down[i].kind]
  /\ shown \in [Kinds -> Seq(Rows)]
  /\ \A k \in Kinds : Len(shown[k]) <= UiCap[k]
  /\ memberCount \in Nat
  /\ scanned \in Nat
  /\ due \in [Kinds -> Seq(Rows)]

Init ==
  /\ signed = TRUE /\ late = 0
  /\ nextListId \in {1, HalfIds - 1}
  /\ down = <<>>
  /\ shown = [k \in Kinds |-> <<>>]
  /\ memberCount = 0 /\ scanned = 0
  /\ due = [k \in Kinds |-> Unsent]

-----------------------------------------------------------------------------
(* The server. *)

(* A 32-bit increment.  (That of a signed variable is undefined in C when   *)
(* it overflows; what compilers emit for this one is the add.)             *)
Wrap(n) == IF n >= HalfIds THEN n - 2 * HalfIds ELSE n

(* Mutant: the counter is not set back. *)
AllocateOnAndOn == nextListId

(* allocate_list_id: the id it returns.  The counter moves past it. *)
AllocateListId == IF nextListId <= 0 THEN 1 ELSE nextListId

(* collect_server_list_item, collect_channel_list_item and                 *)
(* collect_member_list_item: the rows that reach the accumulator.          *)
Accumulated(k, L) == Cut(L, AccCap[k])

(* The frame of row i of n in send_list_response. *)
FrameOf(i, n) ==
  IF n = 1 THEN "single" ELSE IF i = 1 THEN "start" ELSE IF i = n THEN "end" ELSE "middle"

(* Mutant: the packet of an empty list counts itself. *)
EmptyCounted(k, id) ==
  [kind |-> k, row |-> Blank, members |-> 0, id |-> id, index |-> -1, total |-> 1, frame |-> "single"]

EmptyList(k, id) ==
  [kind |-> k, row |-> Blank, members |-> 0, id |-> id, index |-> -1, total |-> 0, frame |-> "single"]

(* send_list_response, for the accumulated rows L; m is the number of      *)
(* members the database counts for the first server.                       *)
ListResponse(k, L, m, id) ==
  IF L = <<>> THEN <<EmptyList(k, id)>>
  ELSE [i \in 1..Len(L) |->
          [kind |-> k, row |-> L[i], members |-> IF k = "servers" THEN m ELSE 0, id |-> id,
           index |-> i - 1, total |-> Len(L), frame |-> FrameOf(i, Len(L))]]

(* The bracketed stream of a friend list: one START, one END and a MIDDLE  *)
(* for every row.  Its id is the user's.                                   *)
Bracket(f, n) ==
  [kind |-> "friends", row |-> Blank, members |-> 0, id |-> 1, index |-> 0, total |-> n, frame |-> f]

BracketedResponse(L) ==
  <<Bracket("start", 0)>>
    \o [i \in 1..Len(L) |->
          [kind |-> "friends", row |-> L[i], members |-> 0, id |-> 1,
           index |-> i - 1, total |-> -1, frame |-> "middle"]]
    \o <<Bracket("end", Len(L))>>

Room == Len(down) <= MaxDown

(* What is due once the list L of kind k is sent, seen as one message.  A  *)
(* list of servers takes what the slots held with it; the lists of the     *)
(* first server need a first server.                                       *)
Due(k, L) ==
  LET new == Cut(L, UiCap[k]) IN
    CASE k = "servers" ->
           [due EXCEPT !["servers"] = new,
                       !["channels"] = IF L = <<>> THEN @ ELSE <<>>,
                       !["members"]  = IF L = <<>> THEN @ ELSE <<>>]
      [] k \in {"channels", "members"} ->
           [due EXCEPT ![k] = IF due["servers"] \in {<<>>, Unsent} THEN @ ELSE new]
      [] k = "friends" -> [due EXCEPT ![k] = new]

(* list_tizcord_servers, list_joined_servers, list_tizcord_channels and    *)
(* list_members, on request or as a push, when the query gives the rows,   *)
(* or those before a row at which it stops.                                *)
StreamCollected(k) ==
  /\ Room
  /\ signed
  /\ \E n \in 0..MaxRows, v \in Versions, m \in 0..MaxRows :
       LET L == Accumulated(k, RowsOf(n, v)) IN
         /\ m > 0 => k = "servers"
         /\ down' = down \o ListResponse(k, L, m, AllocateListId)
         /\ due' = Due(k, Cut(RowsOf(n, v), AccCap[k]))
  /\ nextListId' = Wrap(AllocateListId + 1)
  /\ UNCHANGED <<signed, late, shown, memberCount, scanned>>

(* SOCIAL_LIST_FRIENDS and notify_friend_list_update. *)
StreamFriends ==
  /\ Room
  /\ signed
  /\ \E n \in 0..MaxRows, v \in Versions :
       /\ down' = down \o BracketedResponse(RowsOf(n, v))
       /\ due' = Due("friends", RowsOf(n, v))
  /\ UNCHANGED <<signed, late, nextListId, shown, memberCount, scanned>>

(* The packet of send_action_response: a header of zeros, which reads as a *)
(* SINGLE frame.                                                           *)
ErrorFrame(k) == [Bracket("single", 0) EXCEPT !.kind = k, !.id = 0]

(* The query of a collected list fails: an error goes out instead, and no  *)
(* list id is used.  To the client its frame is that of an empty list.     *)
FailedQuery(k) ==
  /\ Room
  /\ signed
  /\ down' = Append(down, ErrorFrame(k))
  /\ due' = Due(k, <<>>)
  /\ UNCHANGED <<signed, late, nextListId, shown, memberCount, scanned>>

(* The session ends, by ESC or because the account was taken over.  What   *)
(* the client had asked for, or asks before it reads the notice, is still  *)
(* to come.                                                                *)
SignOut ==
  /\ Room
  /\ signed
  /\ signed' = FALSE
  /\ late' \in 0..MaxLate
  /\ down' = Append(down, [Bracket("logout", 0) EXCEPT !.id = 0])
  /\ UNCHANGED <<nextListId, shown, memberCount, scanned, due>>

(* A request of a client that is not signed in is refused.                 *)
Refuse(k) ==
  /\ ~signed
  /\ late > 0
  /\ late' = late - 1
  /\ down' = Append(down, ErrorFrame(k))
  /\ UNCHANGED <<signed, nextListId, shown, memberCount, scanned, due>>

SignIn ==
  /\ ~signed
  /\ late = 0
  /\ \A i \in 1..Len(down) : down[i].frame # "logout"
  /\ signed' = TRUE
  /\ due' = [k \in Kinds |-> Unsent]
  /\ UNCHANGED <<late, nextListId, down, shown, memberCount, scanned>>

-----------------------------------------------------------------------------
(* The client. *)

Gets(k) ==
  /\ down # <<>>
  /\ Head(down).kind = k
  /\ Head(down).frame # "logout"
  /\ down' = Tail(down)

(* The rows of k once the frame p is read: the list starts over with START *)
(* and SINGLE, and there is a row in every frame of a list that has rows.  *)
Filled(k, p) ==
  LET old == IF p.frame \in {"start", "single"} THEN <<>> ELSE shown[k]
  IN  IF p.total > 0 /\ Len(old) < UiCap[k] THEN Append(old, p.row) ELSE old

(* SERVER_LIST: a slot that is filled is cleared first, with the channels  *)
(* and members in it; its member_count is the database's, however many.    *)
ReceiveServers ==
  /\ Gets("servers")
  /\ LET p == Head(down)
         new == Filled("servers", p)
         first == new # <<>> /\ p.frame \in {"start", "single"} IN
       /\ shown' = [shown EXCEPT !["servers"]  = new,
                                 !["channels"] = IF first THEN <<>> ELSE @,
                                 !["members"]  = IF first THEN <<>> ELSE @]
       /\ memberCount' = IF first THEN p.members ELSE memberCount
  /\ UNCHANGED <<signed, late, nextListId, scanned, due>>

(* SERVER_LIST_CHANNELS and SERVER_LIST_MEMBERS: nothing without a server. *)
ReceiveChannels ==
  /\ Gets("channels")
  /\ shown' = IF shown["servers"] = <<>> THEN shown
              ELSE [shown EXCEPT !["channels"] = Filled("channels", Head(down))]
  /\ UNCHANGED <<signed, late, nextListId, memberCount, scanned, due>>

ReceiveMembers ==
  /\ Gets("members")
  /\ IF shown["servers"] = <<>> THEN UNCHANGED <<shown, memberCount>>
     ELSE /\ shown' = [shown EXCEPT !["members"] = Filled("members", Head(down))]
          /\ memberCount' = Len(Filled("members", Head(down)))
  /\ UNCHANGED <<signed, late, nextListId, scanned, due>>

(* SOCIAL_LIST_FRIENDS: START empties the list; MIDDLE and SINGLE carry a  *)
(* row.                                                                    *)
ReceiveFriends ==
  /\ Gets("friends")
  /\ LET p == Head(down) IN
       shown' = [shown EXCEPT !["friends"] =
                   IF p.frame = "start" THEN <<>>
                   ELSE IF p.frame \in {"middle", "single"} /\ Len(@) < UiCap["friends"]
                          THEN Append(@, p.row)
                          ELSE @]
  /\ UNCHANGED <<signed, late, nextListId, memberCount, scanned, due>>

(* AUTH_LOGOUT resets server_count and friend_count; the slots keep what   *)
(* they hold until a server is put into them.                              *)
ReceiveLogout ==
  /\ down # <<>>
  /\ Head(down).frame = "logout"
  /\ down' = Tail(down)
  /\ shown' = [shown EXCEPT !["servers"] = <<>>, !["friends"] = <<>>]
  /\ UNCHANGED <<signed, late, nextListId, memberCount, scanned, due>>

(* /kick with a name: the entries of member_names are compared one after   *)
(* the other, up to the name or to member_count.                           *)
Kick ==
  /\ shown["servers"] # <<>>
  /\ \E i \in 0..memberCount :
       /\ i = memberCount \/ i \in 1..Len(shown["members"])
       /\ scanned' = i
  /\ UNCHANGED <<signed, late, nextListId, down, shown, memberCount, due>>

-----------------------------------------------------------------------------
Next ==
  \/ \E k \in Collected : StreamCollected(k)
  \/ \E k \in Collected : FailedQuery(k)
  \/ StreamFriends
  \/ SignOut \/ SignIn
  \/ \E k \in Kinds : Refuse(k)
  \/ ReceiveServers \/ ReceiveChannels \/ ReceiveMembers \/ ReceiveFriends
  \/ ReceiveLogout
  \/ Kick

Spec == Init /\ [][Next]_vars

-----------------------------------------------------------------------------
(* Once its frames are read, a list is on the screen as it was sent, up to *)
(* what the two arrays hold: no row of an older list, none twice, none     *)
(* missing, whatever lists, errors or refusals were read before it; and    *)
(* after a failed query its array is empty (send_list_response and         *)
(* send_action_response against the counting of ui_update_server_state).   *)
ListsArriveWhole ==
  signed /\ down = <<>> =>
    \A k \in Kinds : due[k] # Unsent => shown[k] = due[k]

(* A frame with an id of allocate_list_id. *)
InStream(p) == p.kind # "friends" /\ p.id # 0

(* The id in the header is a positive number in every frame of a stream,   *)
(* the same in the frames of one and another in the next stream, also when *)
(* the counter wraps around (allocate_list_id).                            *)
IdsTellStreams ==
  /\ \A i \in 1..Len(down) : InStream(down[i]) => down[i].id > 0
  /\ \A i, j \in 1..Len(down) :
       /\ i < j
       /\ InStream(down[i]) /\ InStream(down[j])
       /\ \A m \in 1..Len(down) : i < m /\ m < j => ~InStream(down[m])
       => (down[i].id = down[j].id <=> down[j].frame \in {"middle", "end"})

(* /kick reads entries of member_names that exist. *)
ScanStaysInside == scanned <= UiCap["members"]

(* protocol.h: list_index is the "0-based item index; -1 when not           *)
(* applicable": a frame without a row has -1.                              *)
HeaderAsDocumented ==
  \A i \in 1..Len(down) :
    down[i].id # 0 =>
      IF down[i].row = Blank THEN down[i].index = -1 ELSE down[i].index = down[i].row.at - 1
=============================================================================
