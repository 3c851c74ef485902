------------------------------- MODULE Friends -------------------------------
(***************************************************************************)
(* The friend requests of the server: the rows of the friends table, the   *)
(* handlers of the social packets that change them, and the friend lists   *)
(* the handlers push.                                                      *)
(*                                                                         *)
(* A session stands for the one socket an account is logged in on          *)
(* (SingleSession and SessionIdentity of Sessions are why there is at most *)
(* one, and why a lookup by id finds it).  A client asks for its own list  *)
(* after each of its requests; the other side is sent theirs unasked.      *)
(***************************************************************************)
EXTENDS Accounts

VARIABLES
  row,         \* friends table: row[a][b] is the request a sent to b
  session,     \* users who are logged in
  friendList   \* per user, the list their client was sent in this session

friendVars == <<row, session, friendList>>

RowStates == {"none", "pending", "accepted"}

(* The type column of the list: 0, 1 and 2 in the packets. *)
Types == {"outgoing", "incoming", "friends"}

(* A client that was sent no list yet. *)
NotAsked == [asked |-> FALSE, rows |-> {}]

FriendsTypeOK ==
  /\ row \in [Users -> [Users -> RowStates]]
  /\ session \in SUBSET Users
  /\ friendList \in [Users -> [asked : BOOLEAN, rows : SUBSET (Users \X Types)]]
  /\ \A u \in Users \ session : friendList[u] = NotAsked

-----------------------------------------------------------------------------
(* db_list_friend_requests for u, over the table R: the requests u got,    *)
(* and those u sent.                                                       *)
FriendRows(R, u) ==
  {<<v, IF R[v][u] = "accepted" THEN "friends" ELSE "incoming">> :
      v \in {w \in Users : R[w][u] # "none"}}
  \cup
  {<<v, IF R[u][v] = "accepted" THEN "friends" ELSE "outgoing">> :
      v \in {w \in Users : R[u][w] # "none"}}

ListOf(R, u) == [asked |-> TRUE, rows |-> FriendRows(R, u)]

(* Mutant: the list is sent on whatever socket the user was last seen. *)
NotifyAnyway(T, R) ==
  [u \in Users |-> IF u \in T THEN ListOf(R, u) ELSE friendList[u]]

(* notify_friend_list_update for each of the users in T, if logged in. *)
NotifyFriendLists(T, R) ==
  [u \in Users |-> IF u \in T \cap session THEN ListOf(R, u) ELSE friendList[u]]

(* Mutant and original: are there accepted rows, in one or both directions? *)
AskedAndAccepted(u, v) == row[u][v] = "accepted"
AreFriends(u, v) == row[u][v] = "accepted" \/ row[v][u] = "accepted"

(* db_accept_friend_request on a pending row: accepted, and a pending      *)
(* request in the other direction is deleted.                              *)
Accepted(u, v) ==
  [row EXCEPT ![v][u] = "accepted",
              ![u][v] = IF row[u][v] = "pending" THEN "none" ELSE row[u][v]]

-----------------------------------------------------------------------------
FriendsInit ==
  /\ row = [u \in Users |-> [v \in Users |-> "none"]]
  /\ session = {}
  /\ friendList = [u \in Users |-> NotAsked]

(* A login starts, or takes over, the session of u. *)
Login(u) ==
  /\ session' = session \cup {u}
  /\ friendList' = [friendList EXCEPT ![u] = NotAsked]
  /\ UNCHANGED row

(* A logout, or a lost connection. *)
EndSession(u) ==
  /\ u \in session
  /\ session' = session \ {u}
  /\ friendList' = [friendList EXCEPT ![u] = NotAsked]
  /\ UNCHANGED row

ListFriends(u) ==
  /\ u \in session
  /\ friendList' = NotifyFriendLists({u}, row)
  /\ UNCHANGED <<row, session>>

(* SOCIAL_FRIEND_REQUEST that finds v's own request pending accepts it:    *)
(* both are sent their lists.                                              *)
CrossingRequest(u, v) ==
  /\ u \in session
  /\ u # v
  /\ ~AreFriends(u, v)
  /\ row[v][u] = "pending"
  /\ row' = Accepted(u, v)
  /\ friendList' = NotifyFriendLists({u, v}, Accepted(u, v))
  /\ UNCHANGED session

(* Mutant: the request of the other side is not looked for. *)
RequestUnseen(u, v) ==
  LET R == [row EXCEPT ![u][v] = "pending"]
  IN  /\ u \in session
      /\ u # v
      /\ ~AreFriends(u, v)
      /\ row[u][v] = "none"
      /\ row' = R
      /\ friendList' = NotifyFriendLists({v}, R)
      /\ UNCHANGED session

(* SOCIAL_FRIEND_REQUEST otherwise: a row, unless there is one (UNIQUE);   *)
(* v is sent their list.                                                   *)
FriendRequest(u, v) ==
  LET R == [row EXCEPT ![u][v] = "pending"]
  IN  /\ u \in session
      /\ u # v
      /\ ~AreFriends(u, v)
      /\ row[v][u] # "pending"
      /\ row[u][v] = "none"
      /\ row' = R
      /\ friendList' = NotifyFriendLists({v}, R)
      /\ UNCHANGED session

(* Mutants: the accepter is told and the asker is not; the row is looked   *)
(* up in the wrong direction.                                              *)
AcceptTellsAccepter(u, v) ==
  /\ u \in session
  /\ row[v][u] = "pending"
  /\ row' = Accepted(u, v)
  /\ friendList' = NotifyFriendLists({u}, Accepted(u, v))
  /\ UNCHANGED session

AcceptOwnRequest(u, v) ==
  /\ u \in session
  /\ row[u][v] = "pending"
  /\ row' = Accepted(v, u)
  /\ friendList' = NotifyFriendLists({v}, Accepted(v, u))
  /\ UNCHANGED session

(* SOCIAL_FRIEND_ACCEPT: v, who asked, is sent their list. *)
FriendAccept(u, v) ==
  /\ u \in session
  /\ row[v][u] = "pending"
  /\ row' = Accepted(u, v)
  /\ friendList' = NotifyFriendLists({v}, Accepted(u, v))
  /\ UNCHANGED session

(* db_remove_friendship deletes the rows of both directions. *)
FriendRemove(u, v) ==
  LET R == [row EXCEPT ![u][v] = "none", ![v][u] = "none"]
  IN  /\ u \in session
      /\ AreFriends(u, v)
      /\ row' = R
      /\ friendList' = NotifyFriendLists({v}, R)
      /\ UNCHANGED session

FriendReject(u, v) ==
  LET R == [row EXCEPT ![v][u] = "none"]
  IN  /\ u \in session
      /\ row[v][u] = "pending"
      /\ row' = R
      /\ friendList' = NotifyFriendLists({v}, R)
      /\ UNCHANGED session

(* The requests of u. *)
Request(u) ==
  \E v \in Users :
    \/ CrossingRequest(u, v)
    \/ FriendRequest(u, v)
    \/ FriendAccept(u, v)
    \/ FriendRemove(u, v)
    \/ FriendReject(u, v)

FriendsNext ==
  \E u \in Users : Login(u) \/ EndSession(u) \/ ListFriends(u) \/ Request(u)

FriendsSpec == FriendsInit /\ [][FriendsNext]_friendVars

-----------------------------------------------------------------------------
(* Properties. *)

(* One row at most stands between two users, and none between a user and   *)
(* themselves: crossing requests, repeated requests and an accept after    *)
(* either leave one.  The friend list, which unites both directions, so    *)
(* shows nobody twice.                                                     *)
OneRowPerPair ==
  \A u, v \in Users : row[u][v] # "none" => u # v /\ row[v][u] = "none"

(* The list on the screen of u goes stale only by a request of u, after    *)
(* which u's client asks for it: whatever others do reaches u by itself.   *)
ListFresh(u) == friendList[u].asked => friendList[u] = ListOf(row, u)

StaleOnlyByOwnRequest ==
  [][\A u \in Users : ListFresh(u) /\ ~ListFresh(u)' => Request(u)]_friendVars

(* It takes two: whoever becomes a friend has asked for it, in a request   *)
(* that still stood, or asks or agrees in this very step.                  *)
FriendsByConsent ==
  [][\A u, v \in Users :
       ~AreFriends(u, v) /\ AreFriends(u, v)' => row[u][v] = "pending" \/ Request(u)]_friendVars

(* How u stands to v, read from the rows of the table. *)
bondOf ==
  [u \in Users |-> [v \in Users |->
     IF AreFriends(u, v) THEN "friends"
     ELSE IF row[v][u] = "pending" THEN "incoming"
     ELSE IF row[u][v] = "pending" THEN "outgoing"
     ELSE "none"]]

Abstract == INSTANCE Friendship WITH bond <- bondOf

(* The handlers implement Friendship: friendship takes a step of each      *)
(* side, and the two sides never see it differently.                       *)
ImplementsFriendship == Abstract!Spec
=============================================================================
