------------------------------ MODULE Sessions ------------------------------
(***************************************************************************)
(* The client table of the Tizcord server, the accounts its clients log in *)
(* to, and the user list it pushes to them.                                *)
(*                                                                         *)
(* The server is one thread: a packet is handled to its end before the     *)
(* next one is read, so each handler is one action here.  What the model   *)
(* leaves to the order of actions is which client is served next, when a   *)
(* connection is accepted or lost, and when the process is restarted.      *)
(*                                                                         *)
(* A user stands for its row id and its (unique) name; NoUser is the id 0  *)
(* of a client that has not logged in.  Passwords are abstracted: a login  *)
(* either proves the account or leaves the state as it is.                 *)
(***************************************************************************)
EXTENDS Accounts, FiniteSets, Naturals

CONSTANTS
  Fds,         \* socket descriptors accept() may return
  Texts,       \* custom status texts
  NoText,      \* the empty status text of a new account
  MaxClients   \* capacity of the client table (MAX_CLIENTS)

ASSUME SessionsAssumption ==
  /\ IsFiniteSet(Fds)
  /\ NoText \in Texts
  /\ MaxClients \in Nat \ {0}

VARIABLES
  accounts,    \* rows of the users table
  status,      \* users.status, per user
  open,        \* descriptors that are in the client table
  client,      \* per descriptor, the identity fields of its ClientNode
  userList,    \* per descriptor, the user list its peer has been sent
  told         \* per descriptor, the account its peer was told it is in

sessionVars == <<accounts, status, open, client, userList, told>>

Blank == [auth |-> FALSE, id |-> NoUser]

NotListed == [listed |-> FALSE, online |-> FALSE, text |-> NoText]

NoList == [u \in Users |-> NotListed]

Rows == [listed : BOOLEAN, online : BOOLEAN, text : Texts]

TypeOK ==
  /\ accounts \in SUBSET Users
  /\ status \in [Users -> Texts]
  /\ open \in SUBSET Fds
  /\ client \in [Fds -> [auth : BOOLEAN, id : Users \cup {NoUser}]]
  /\ userList \in [Fds -> [Users -> Rows]]
  /\ told \in [Fds -> Users \cup {NoUser}]
  /\ Cardinality(open) <= MaxClients

-----------------------------------------------------------------------------
(* What the handlers are built from. *)

(* client_is_online, and the same loop in user_list_cb, over the table O, C. *)
ClientIsOnline(O, C, u) == \E f \in O : C[f].id = u /\ C[f].auth

(* The rows one LIST_USERS answer carries: every account A, with its status *)
(* text S and its presence in the client table O, C.                        *)
UserRowsOf(A, S, O, C) ==
  [u \in Users |->
     IF u \in A
       THEN [listed |-> TRUE, online |-> ClientIsOnline(O, C, u), text |-> S[u]]
       ELSE NotListed]

UserRows == UserRowsOf(accounts, status, open, client)

(* Mutant: the rows are read before the handler has made its change. *)
NotifyTooEarly(A, S, O, C) ==
  [f \in Fds |->
     IF f \in O /\ C[f].auth THEN UserRows
     ELSE IF f \in O THEN userList[f]
     ELSE NoList]

(* notify_all_user_lists: what the peers have once everyone authenticated   *)
(* in the table O, C that the handler leaves has been sent the list.        *)
NotifyAllUserLists(A, S, O, C) ==
  [f \in Fds |->
     IF f \in O /\ C[f].auth THEN UserRowsOf(A, S, O, C)
     ELSE IF f \in O THEN userList[f]
     ELSE NoList]

(* Mutants: a client that switches account revokes nobody; every other     *)
(* login is revoked.                                                       *)
RevokedOnFreshLogin(fd, u) ==
  {f \in open \ {fd} : ~client[fd].auth /\ client[f].auth /\ client[f].id = u}

RevokedEverywhere(fd, u) == {f \in open \ {fd} : client[f].auth}

(* The other clients whose login as u is revoked when fd logs in as u. *)
RevokedBy(fd, u) ==
  {f \in open \ {fd} : client[f].auth /\ client[f].id = u}

(* Mutant: the flag is cleared and the id is kept. *)
ClearedFlag(fd) == [client EXCEPT ![fd].auth = FALSE]

(* The client table once the identity of fd is cleared, once fd has the    *)
(* identity u, and once fd has logged in as u.                             *)
Cleared(fd) == [client EXCEPT ![fd] = Blank]

Identified(fd, u) == [client EXCEPT ![fd] = [auth |-> TRUE, id |-> u]]

LoggedIn(fd, u) ==
  [f \in Fds |-> IF f = fd THEN [auth |-> TRUE, id |-> u]
                 ELSE IF f \in RevokedBy(fd, u) THEN Blank
                 ELSE client[f]]

-----------------------------------------------------------------------------
Init ==
  /\ accounts = {}
  /\ status = [u \in Users |-> NoText]
  /\ open = {}
  /\ client = [f \in Fds |-> Blank]
  /\ userList = [f \in Fds |-> NoList]
  /\ told = [f \in Fds |-> NoUser]

(* Mutant and original: the test of the capacity in handle_new_connection. *)
HasRoomOffByOne == Cardinality(open) <= MaxClients
HasRoom == Cardinality(open) < MaxClients

(* A connection is accepted unless the table is full: then it is closed at *)
(* once, which leaves the state as it was.                                 *)
HandleNewConnection(fd) ==
  /\ fd \notin open
  /\ HasRoom
  /\ open' = open \cup {fd}
  /\ client' = [client EXCEPT ![fd] = Blank]
  /\ userList' = [userList EXCEPT ![fd] = NoList]
  /\ told' = [told EXCEPT ![fd] = NoUser]
  /\ UNCHANGED <<accounts, status>>

(* The read of fd fails or finds the end of the stream.  Only the loss of  *)
(* an authenticated client is announced.                                   *)
Disconnect(fd) ==
  /\ fd \in open
  /\ open' = open \ {fd}
  /\ client' = Cleared(fd)
  /\ told' = [told EXCEPT ![fd] = NoUser]
  /\ userList' = IF client[fd].auth
                   THEN NotifyAllUserLists(accounts, status, open \ {fd}, Cleared(fd))
                   ELSE [userList EXCEPT ![fd] = NoList]
  /\ UNCHANGED <<accounts, status>>

(* A name nobody has registers and is logged in on fd, whoever fd was. *)
RegisterAccount(fd, u) ==
  /\ fd \in open
  /\ u \notin accounts
  /\ accounts' = accounts \cup {u}
  /\ client' = Identified(fd, u)
  /\ told' = [told EXCEPT ![fd] = u]
  /\ userList' = NotifyAllUserLists(accounts \cup {u}, status, open, Identified(fd, u))
  /\ UNCHANGED <<status, open>>

(* Mutant: the clients thrown out are not told. *)
LoginWithoutNotice(fd, u) ==
  /\ fd \in open
  /\ u \in accounts
  /\ client' = LoggedIn(fd, u)
  /\ told' = [told EXCEPT ![fd] = u]
  /\ userList' = NotifyAllUserLists(accounts, status, open, LoggedIn(fd, u))
  /\ UNCHANGED <<accounts, status, open>>

(* A correct password: older logins of the account are told and cleared,   *)
(* then fd takes the identity.                                             *)
LoginAccount(fd, u) ==
  /\ fd \in open
  /\ u \in accounts
  /\ client' = LoggedIn(fd, u)
  /\ told' = [f \in Fds |-> IF f = fd THEN u
                            ELSE IF f \in RevokedBy(fd, u) THEN NoUser
                            ELSE told[f]]
  /\ userList' = NotifyAllUserLists(accounts, status, open, LoggedIn(fd, u))
  /\ UNCHANGED <<accounts, status, open>>

LogoutAccount(fd) ==
  /\ fd \in open
  /\ client[fd].auth
  /\ client' = Cleared(fd)
  /\ told' = [told EXCEPT ![fd] = NoUser]
  /\ userList' = NotifyAllUserLists(accounts, status, open, Cleared(fd))
  /\ UNCHANGED <<accounts, status, open>>

(* SOCIAL_LIST_USERS: the list, to the client that asks. *)
ListUsers(fd) ==
  /\ fd \in open
  /\ client[fd].auth
  /\ userList' = [userList EXCEPT ![fd] = UserRows]
  /\ UNCHANGED <<accounts, status, open, client, told>>

(* SOCIAL_UPDATE_STATUS: stored, then announced to every authenticated     *)
(* client as one row and not as a list.  An empty or overlong text is      *)
(* refused.                                                                *)
UpdateStatus(fd, t) ==
  /\ fd \in open
  /\ client[fd].auth
  /\ t # NoText
  /\ status' = [status EXCEPT ![client[fd].id] = t]
  /\ userList' = [f \in Fds |->
       IF f \in open /\ client[f].auth
         THEN [userList[f] EXCEPT ![client[fd].id] =
                 [listed |-> TRUE, online |-> ClientIsOnline(open, client, client[fd].id), text |-> t]]
         ELSE userList[f]]
  /\ UNCHANGED <<accounts, open, client, told>>

(* The process ends (select fails, a signal) and is started again: the     *)
(* database keeps the accounts, the client table is empty.                 *)
Restart ==
  /\ open' = {}
  /\ client' = [f \in Fds |-> Blank]
  /\ userList' = [f \in Fds |-> NoList]
  /\ told' = [f \in Fds |-> NoUser]
  /\ UNCHANGED <<accounts, status>>

Next ==
  \/ \E fd \in Fds : HandleNewConnection(fd)
  \/ \E fd \in Fds : Disconnect(fd)
  \/ \E fd \in Fds, u \in Users : RegisterAccount(fd, u)
  \/ \E fd \in Fds, u \in Users : LoginAccount(fd, u)
  \/ \E fd \in Fds : LogoutAccount(fd)
  \/ \E fd \in Fds : ListUsers(fd)
  \/ \E fd \in Fds, t \in Texts : UpdateStatus(fd, t)
  \/ Restart

Spec == Init /\ [][Next]_sessionVars

-----------------------------------------------------------------------------
(* Properties. *)

(* The two identity fields of a ClientNode agree: a client is              *)
(* authenticated exactly when its id is not 0, and then the id is of an    *)
(* account.  notify_friend_list_update and the delivery of a direct        *)
(* message look clients up by id alone and rely on it.                     *)
SessionIdentity ==
  /\ \A f \in Fds : client[f].auth <=> client[f].id # NoUser
  /\ \A f \in Fds : client[f].auth => f \in open /\ client[f].id \in accounts

(* revoke_existing_login does its work: however logins, registrations,     *)
(* switches of account and lost connections are ordered, no account is     *)
(* logged in on two sockets, so "the first client with this id" is the     *)
(* client with this id.                                                    *)
SingleSession ==
  \A f, g \in Fds :
    client[f].auth /\ client[g].auth /\ client[f].id = client[g].id => f = g

(* The presence every authenticated peer has been sent is the presence in  *)
(* the client table, whoever else came, went or was thrown out since: each *)
(* handler that changes who is online, who exists or a status text pushes  *)
(* the change to everyone who can see it.                                  *)
UserListFresh ==
  \A f \in open : client[f].auth => userList[f] = UserRows

(* A peer knows whether it is still logged in, and as whom: the client of  *)
(* a revoked session is told so by the AUTH_LOGOUT it did not ask for.     *)
PeerIsTold == \A f \in open : told[f] = client[f].id

(* One packet or one lost connection touches one session, except a login   *)
(* that takes an account over: it ends the sessions of that account and of *)
(* no other.                                                               *)
OneSessionPerStep ==
  [][open' # {} =>
       \A f, g \in Fds :
         f # g /\ client'[f] # client[f] /\ client'[g] # client[g]
           => \/ client[f].auth /\ client'[g].id = client[f].id
              \/ client[g].auth /\ client'[f].id = client[g].id]_sessionVars
=============================================================================
