---------------------------- MODULE Server_proofs ----------------------------
(***************************************************************************)
(* Proofs about the two halves of the server's state: the client table     *)
(* (Sessions), for any set of descriptors, users and texts and any         *)
(* capacity of the table, and the servers in the database (Guilds), for    *)
(* any users, names and id bounds.                                         *)
(*                                                                         *)
(* Sessions.  The inductive invariant is the conjunction of the type       *)
(* invariant and the four safety invariants: freshness of the pushed lists *)
(* needs SessionIdentity (a closed descriptor has no identity, so opening  *)
(* it changes nobody's presence), and each of the others stands on TypeOK. *)
(*                                                                         *)
(* Guilds.  GuildsTypeOK and NoOrphans are inductive together; the         *)
(* uniqueness invariants and the two action properties follow from them.   *)
(***************************************************************************)
EXTENDS Sessions, Guilds, FiniteSetTheorems, TLAPS

-----------------------------------------------------------------------------
(* The client table. *)

IInv == SessionIdentity /\ SingleSession /\ UserListFresh /\ PeerIsTold

(* Typing is inductive by itself: every handler stores values of the       *)
(* fields' types, and the table takes a descriptor only below capacity.    *)
LEMMA TypingInit == Init => TypeOK
  <1> SUFFICES ASSUME Init PROVE TypeOK
      OBVIOUS
  <1>1. Cardinality(open) <= MaxClients
      BY FS_EmptySet, SessionsAssumption DEF Init
  <1>2. QED
      BY <1>1, SessionsAssumption DEF Init, TypeOK, Blank, NoList, NotListed, Rows

(* The rows pushed by a handler are well typed. *)
LEMMA RowsTyped ==
  ASSUME NEW A \in SUBSET Users, NEW S \in [Users -> Texts], NEW O, NEW C
  PROVE  UserRowsOf(A, S, O, C) \in [Users -> Rows]
  <1>1. NotListed \in Rows
      BY SessionsAssumption DEF NotListed, Rows
  <1>2. ASSUME NEW u \in Users
        PROVE  [listed |-> TRUE, online |-> ClientIsOnline(O, C, u), text |-> S[u]] \in Rows
      BY DEF Rows, ClientIsOnline
  <1>3. QED
      BY <1>1, <1>2 DEF UserRowsOf

(* So are the lists all peers hold after notify_all_user_lists. *)
LEMMA NotifyTyped ==
  ASSUME TypeOK, NEW A \in SUBSET Users, NEW S \in [Users -> Texts], NEW O, NEW C
  PROVE  NotifyAllUserLists(A, S, O, C) \in [Fds -> [Users -> Rows]]
  <1>1. NoList \in [Users -> Rows]
      BY SessionsAssumption DEF NoList, NotListed, Rows
  <1>2. UserRowsOf(A, S, O, C) \in [Users -> Rows]
      BY RowsTyped
  <1>3. QED
      BY <1>1, <1>2 DEF NotifyAllUserLists, TypeOK

(* The size of the client table after one descriptor came or went. *)
LEMMA TableSize ==
  ASSUME TypeOK, NEW fd \in Fds
  PROVE  /\ Cardinality(open) \in Nat
         /\ fd \notin open => Cardinality(open \cup {fd}) = Cardinality(open) + 1
         /\ fd \in open => Cardinality(open \ {fd}) = Cardinality(open) - 1
         /\ Cardinality({}) = 0
  <1>1. IsFiniteSet(open)
      BY FS_Subset, SessionsAssumption DEF TypeOK
  <1>2. QED
      BY <1>1, FS_AddElement, FS_RemoveElement, FS_CardinalityType, FS_EmptySet

(* Every handler stores values of the fields' types. *)
LEMMA TypingStep == TypeOK /\ [Next]_sessionVars => TypeOK'
  <1> SUFFICES ASSUME TypeOK, [Next]_sessionVars PROVE TypeOK'
      OBVIOUS
  <1> USE DEF TypeOK
  <1>b. Blank \in [auth : BOOLEAN, id : Users \cup {NoUser}] /\ NoList \in [Users -> Rows]
      BY SessionsAssumption DEF Blank, NoList, NotListed, Rows
  <1>1. ASSUME NEW fd \in Fds, HandleNewConnection(fd) PROVE TypeOK'
      BY <1>1, <1>b, TableSize, SessionsAssumption DEF HandleNewConnection, HasRoom
  <1>2. ASSUME NEW fd \in Fds, Disconnect(fd) PROVE TypeOK'
    <2>1. client' \in [Fds -> [auth : BOOLEAN, id : Users \cup {NoUser}]]
        BY <1>2, <1>b DEF Disconnect, Cleared
    <2>2. userList' \in [Fds -> [Users -> Rows]]
        BY <1>2, <1>b, NotifyTyped DEF Disconnect, Cleared
    <2>3. Cardinality(open') <= MaxClients
        BY <1>2, TableSize, SessionsAssumption DEF Disconnect, Cleared
    <2>4. QED
        BY <1>2, <2>1, <2>2, <2>3 DEF Disconnect, Cleared
  <1>3. ASSUME NEW fd \in Fds, NEW u \in Users, RegisterAccount(fd, u) PROVE TypeOK'
    <2>1. userList' \in [Fds -> [Users -> Rows]]
        BY <1>3, NotifyTyped DEF RegisterAccount, Identified
    <2>2. QED
        BY <1>3, <2>1 DEF RegisterAccount, Identified
  <1>4. ASSUME NEW fd \in Fds, NEW u \in Users, LoginAccount(fd, u) PROVE TypeOK'
    <2>1. userList' \in [Fds -> [Users -> Rows]]
        BY <1>4, NotifyTyped DEF LoginAccount, LoggedIn
    <2>2. client' \in [Fds -> [auth : BOOLEAN, id : Users \cup {NoUser}]]
        BY <1>4, <1>b DEF LoginAccount, LoggedIn
    <2>3. told' \in [Fds -> Users \cup {NoUser}]
        BY <1>4 DEF LoginAccount, LoggedIn
    <2>4. QED
        BY <1>4, <2>1, <2>2, <2>3 DEF LoginAccount, LoggedIn
  <1>5. ASSUME NEW fd \in Fds, LogoutAccount(fd) PROVE TypeOK'
    <2>1. userList' \in [Fds -> [Users -> Rows]]
        BY <1>5, NotifyTyped DEF LogoutAccount, Cleared
    <2>2. QED
        BY <1>5, <1>b, <2>1 DEF LogoutAccount, Cleared
  <1>6. ASSUME NEW fd \in Fds, ListUsers(fd) PROVE TypeOK'
      BY <1>6, RowsTyped DEF ListUsers, UserRows
  <1>7. ASSUME NEW fd \in Fds, NEW t \in Texts, UpdateStatus(fd, t) PROVE TypeOK'
    <2>1. [listed |-> TRUE, online |-> ClientIsOnline(open, client, client[fd].id), text |-> t] \in Rows
        BY DEF Rows, ClientIsOnline
    <2>2. userList' \in [Fds -> [Users -> Rows]]
        BY <1>7, <2>1 DEF UpdateStatus
    <2>3. QED
        BY <1>7, <2>2 DEF UpdateStatus
  <1>8. ASSUME Restart PROVE TypeOK'
      BY <1>8, <1>b, TableSize, SessionsAssumption, FS_EmptySet DEF Restart
  <1>9. CASE UNCHANGED sessionVars
      BY <1>9 DEF sessionVars
  <1>10. QED
      BY <1>1, <1>2, <1>3, <1>4, <1>5, <1>6, <1>7, <1>8, <1>9 DEF Next

(* The client table never outgrows its array and every field keeps its     *)
(* type, whatever connects, logs in or is lost.                            *)
THEOREM Typing == Spec => []TypeOK
  BY TypingInit, TypingStep, PTL DEF Spec
-----------------------------------------------------------------------------
(* The invariants of the identities and of the pushed lists. *)

(* The empty table satisfies them all. *)
LEMMA IInvInit == Init => IInv
  BY SessionsAssumption
     DEF Init, IInv, SessionIdentity, SingleSession, UserListFresh, PeerIsTold, Blank

(* The client table after a step satisfies the two identity invariants.    *)
(* Only a registration and a login create an identity; a registration      *)
(* takes an account nobody has, a login revokes the sessions that have it. *)
LEMMA IdentityStep ==
  ASSUME TypeOK, SessionIdentity, SingleSession, [Next]_sessionVars
  PROVE  SessionIdentity' /\ SingleSession'
  <1> USE DEF TypeOK, SessionIdentity, SingleSession
  <1>b. Blank.auth = FALSE /\ Blank.id = NoUser
      BY DEF Blank
  <1>1. ASSUME NEW fd \in Fds, HandleNewConnection(fd)
        PROVE  SessionIdentity' /\ SingleSession'
      BY <1>1, <1>b DEF HandleNewConnection
  <1>2. ASSUME NEW fd \in Fds, Disconnect(fd)
        PROVE  SessionIdentity' /\ SingleSession'
    <2>1. /\ client' = [client EXCEPT ![fd] = Blank]
          /\ open' = open \ {fd}
          /\ accounts' = accounts
        BY <1>2 DEF Disconnect, Cleared
    <2>2. QED
        BY <2>1, <1>b
  <1>3. ASSUME NEW fd \in Fds, NEW u \in Users, RegisterAccount(fd, u)
        PROVE  SessionIdentity' /\ SingleSession'
    <2>1. /\ client' = [client EXCEPT ![fd] = [auth |-> TRUE, id |-> u]]
          /\ accounts' = accounts \cup {u}
          /\ open' = open /\ fd \in open /\ u \notin accounts
        BY <1>3 DEF RegisterAccount, Identified
    <2>2. /\ client'[fd].auth = TRUE /\ client'[fd].id = u
          /\ \A f \in Fds \ {fd} : client'[f] = client[f]
        BY <2>1
    <2>3. u # NoUser
        BY AccountsAssumption
    <2>4. QED
        BY <2>1, <2>2, <2>3
  <1>4. ASSUME NEW fd \in Fds, NEW u \in Users, LoginAccount(fd, u)
        PROVE  SessionIdentity' /\ SingleSession'
    <2>1. /\ client' = [f \in Fds |-> IF f = fd THEN [auth |-> TRUE, id |-> u]
                                      ELSE IF f \in RevokedBy(fd, u) THEN Blank
                                      ELSE client[f]]
          /\ accounts' = accounts
          /\ open' = open /\ fd \in open /\ u \in accounts
        BY <1>4 DEF LoginAccount, LoggedIn
    <2>2. \A f \in Fds \ {fd} : client[f].auth /\ client[f].id = u => f \in RevokedBy(fd, u)
        BY DEF RevokedBy
    <2>3. \A f \in Fds \ {fd} :
            \/ client'[f] = Blank
            \/ client'[f] = client[f] /\ ~(client[f].auth /\ client[f].id = u)
        BY <2>1, <2>2
    <2>4. client'[fd].auth = TRUE /\ client'[fd].id = u /\ u # NoUser
        BY <2>1, AccountsAssumption
    <2>5. QED
        BY <2>1, <2>3, <2>4, <1>b
  <1>5. ASSUME NEW fd \in Fds, LogoutAccount(fd)
        PROVE  SessionIdentity' /\ SingleSession'
    <2>1. /\ client' = [client EXCEPT ![fd] = Blank]
          /\ UNCHANGED <<accounts, open>>
        BY <1>5 DEF LogoutAccount, Cleared
    <2>2. QED
        BY <2>1, <1>b
  <1>6. ASSUME NEW fd \in Fds, ListUsers(fd)
        PROVE  SessionIdentity' /\ SingleSession'
      BY <1>6 DEF ListUsers
  <1>7. ASSUME NEW fd \in Fds, NEW t \in Texts, UpdateStatus(fd, t)
        PROVE  SessionIdentity' /\ SingleSession'
      BY <1>7 DEF UpdateStatus
  <1>8. ASSUME Restart
        PROVE  SessionIdentity' /\ SingleSession'
      BY <1>8, <1>b DEF Restart
  <1>9. CASE UNCHANGED sessionVars
      BY <1>9 DEF sessionVars
  <1>10. QED
      BY <1>1, <1>2, <1>3, <1>4, <1>5, <1>6, <1>7, <1>8, <1>9 DEF Next

(* Presence depends on the authenticated clients only. *)
LEMMA SamePresence ==
  ASSUME NEW A, NEW S, NEW O, NEW C, NEW P, NEW D,
         \A u \in Users : ClientIsOnline(O, C, u) <=> ClientIsOnline(P, D, u)
  PROVE  UserRowsOf(A, S, O, C) = UserRowsOf(A, S, P, D)
  <1>1. \A u \in Users : ClientIsOnline(O, C, u) = ClientIsOnline(P, D, u)
      BY DEF ClientIsOnline
  <1>2. QED
      BY <1>1 DEF UserRowsOf

(* Each handler leaves every authenticated peer with the current list:     *)
(* those that change it notify everyone, and a client without an identity  *)
(* comes and goes unseen.                                                  *)
LEMMA FreshStep ==
  ASSUME TypeOK, IInv, [Next]_sessionVars
  PROVE  UserListFresh'
  <1> USE DEF TypeOK, IInv
  <1> SUFFICES ASSUME NEW f \in open', client'[f].auth
               PROVE  userList'[f] = UserRows'
      BY DEF UserListFresh
  <1> UserRows' = UserRowsOf(accounts', status', open', client')
      BY DEF UserRows
  <1>n. ASSUME userList' = NotifyAllUserLists(accounts', status', open', client'),
               open' \subseteq open
        PROVE  userList'[f] = UserRows'
      BY <1>n DEF NotifyAllUserLists
  <1>0. \A g \in Fds : g \notin open => client[g].auth = FALSE
      BY DEF SessionIdentity
  <1>1. ASSUME NEW fd \in Fds, HandleNewConnection(fd)
        PROVE  userList'[f] = UserRows'
    <2>1. f # fd /\ f \in open /\ client'[f] = client[f] /\ userList'[f] = userList[f]
        BY <1>1 DEF HandleNewConnection, Blank
    <2>2. \A u \in Users : ClientIsOnline(open, client, u) <=> ClientIsOnline(open', client', u)
        BY <1>1, <1>0 DEF HandleNewConnection, ClientIsOnline, Blank
    <2>3. UserRowsOf(accounts, status, open, client) = UserRowsOf(accounts, status, open', client')
        BY <2>2, SamePresence
    <2>4. QED
        BY <1>1, <2>1, <2>3 DEF HandleNewConnection, UserListFresh, UserRows
  <1>2. ASSUME NEW fd \in Fds, Disconnect(fd)
        PROVE  userList'[f] = UserRows'
    <2>1. CASE client[fd].auth
        BY <1>2, <2>1, <1>n DEF Disconnect, Cleared
    <2>2. CASE ~client[fd].auth
      <3>1. f # fd /\ f \in open /\ client'[f] = client[f] /\ userList'[f] = userList[f]
          BY <1>2, <2>2 DEF Disconnect, Cleared, Blank
      <3>2. \A u \in Users : ClientIsOnline(open, client, u) <=> ClientIsOnline(open', client', u)
          BY <1>2, <2>2 DEF Disconnect, Cleared, ClientIsOnline, Blank
      <3>3. UserRowsOf(accounts, status, open, client) = UserRowsOf(accounts, status, open', client')
          BY <3>2, SamePresence
      <3>4. QED
          BY <1>2, <3>1, <3>3 DEF Disconnect, Cleared, UserListFresh, UserRows
    <2>3. QED
        BY <2>1, <2>2
  <1>3. ASSUME NEW fd \in Fds, NEW u \in Users, RegisterAccount(fd, u)
        PROVE  userList'[f] = UserRows'
    <2>1. userList' = NotifyAllUserLists(accounts', status', open', client')
        BY <1>3 DEF RegisterAccount, Identified
    <2>2. QED
        BY <1>3, <2>1, <1>n DEF RegisterAccount, Identified
  <1>4. ASSUME NEW fd \in Fds, NEW u \in Users, LoginAccount(fd, u)
        PROVE  userList'[f] = UserRows'
    <2>1. userList' = NotifyAllUserLists(accounts', status', open', client')
        BY <1>4 DEF LoginAccount, LoggedIn
    <2>2. QED
        BY <1>4, <2>1, <1>n DEF LoginAccount, LoggedIn
  <1>5. ASSUME NEW fd \in Fds, LogoutAccount(fd)
        PROVE  userList'[f] = UserRows'
    <2>1. userList' = NotifyAllUserLists(accounts', status', open', client')
        BY <1>5 DEF LogoutAccount, Cleared
    <2>2. QED
        BY <1>5, <2>1, <1>n DEF LogoutAccount, Cleared
  <1>6. ASSUME NEW fd \in Fds, ListUsers(fd)
        PROVE  userList'[f] = UserRows'
      BY <1>6 DEF ListUsers, UserListFresh, UserRows
  <1>7. ASSUME NEW fd \in Fds, NEW t \in Texts, UpdateStatus(fd, t)
        PROVE  userList'[f] = UserRows'
    <2> DEFINE u == client[fd].id
    <2>1. u \in accounts /\ u \in Users
        BY <1>7 DEF UpdateStatus, SessionIdentity
    <2>2. userList[f] = UserRowsOf(accounts, status, open, client)
        BY <1>7 DEF UpdateStatus, UserListFresh, UserRows
    <2>3. userList'[f] = [userList[f] EXCEPT ![u] =
              [listed |-> TRUE, online |-> ClientIsOnline(open, client, u), text |-> t]]
        BY <1>7 DEF UpdateStatus
    <2>4. status' = [status EXCEPT ![u] = t] /\ UNCHANGED <<accounts, open, client>>
        BY <1>7 DEF UpdateStatus
    <2>5. ASSUME NEW v \in Users
          PROVE  userList'[f][v] = UserRowsOf(accounts', status', open', client')[v]
      <3>1. CASE v = u
          BY <2>1, <2>2, <2>3, <2>4, <3>1 DEF UserRowsOf
      <3>2. CASE v # u
          BY <2>1, <2>2, <2>3, <2>4, <3>2 DEF UserRowsOf
      <3>3. QED
          BY <3>1, <3>2
    <2>6. /\ userList'[f] = [v \in Users |-> userList'[f][v]]
          /\ UserRowsOf(accounts', status', open', client') =
               [v \in Users |-> UserRowsOf(accounts', status', open', client')[v]]
        BY <2>2, <2>3 DEF UserRowsOf
    <2>7. QED
        BY <2>5, <2>6
  <1>8. ASSUME Restart
        PROVE  userList'[f] = UserRows'
      BY <1>8 DEF Restart
  <1>9. CASE UNCHANGED sessionVars
      BY <1>9 DEF sessionVars, UserListFresh, UserRows
  <1>10. QED
      BY <1>1, <1>2, <1>3, <1>4, <1>5, <1>6, <1>7, <1>8, <1>9 DEF Next

(* Every change of an identity is told to the peer whose identity it is. *)
LEMMA ToldStep ==
  ASSUME TypeOK, IInv, [Next]_sessionVars
  PROVE  PeerIsTold'
  <1> USE DEF TypeOK, IInv, PeerIsTold, Blank
  <1>1. ASSUME NEW fd \in Fds, HandleNewConnection(fd) PROVE PeerIsTold'
      BY <1>1 DEF HandleNewConnection
  <1>2. ASSUME NEW fd \in Fds, Disconnect(fd) PROVE PeerIsTold'
      BY <1>2 DEF Disconnect, Cleared
  <1>3. ASSUME NEW fd \in Fds, NEW u \in Users, RegisterAccount(fd, u) PROVE PeerIsTold'
      BY <1>3 DEF RegisterAccount, Identified
  <1>4. ASSUME NEW fd \in Fds, NEW u \in Users, LoginAccount(fd, u) PROVE PeerIsTold'
      BY <1>4 DEF LoginAccount, LoggedIn
  <1>5. ASSUME NEW fd \in Fds, LogoutAccount(fd) PROVE PeerIsTold'
      BY <1>5 DEF LogoutAccount, Cleared
  <1>6. ASSUME NEW fd \in Fds, ListUsers(fd) PROVE PeerIsTold'
      BY <1>6 DEF ListUsers
  <1>7. ASSUME NEW fd \in Fds, NEW t \in Texts, UpdateStatus(fd, t) PROVE PeerIsTold'
      BY <1>7 DEF UpdateStatus
  <1>8. ASSUME Restart PROVE PeerIsTold'
      BY <1>8 DEF Restart
  <1>9. CASE UNCHANGED sessionVars
      BY <1>9 DEF sessionVars
  <1>10. QED
      BY <1>1, <1>2, <1>3, <1>4, <1>5, <1>6, <1>7, <1>8, <1>9 DEF Next

(* The conjunction of the safety invariants is preserved by every step. *)
LEMMA IInvStep == TypeOK /\ IInv /\ [Next]_sessionVars => IInv'
  BY IdentityStep, FreshStep, ToldStep DEF IInv

(* The safety invariants hold in every reachable state. *)
LEMMA Invariance == Spec => [](TypeOK /\ IInv)
  <1>1. Init => TypeOK /\ IInv
      BY TypingInit, IInvInit
  <1>2. TypeOK /\ IInv /\ [Next]_sessionVars => (TypeOK /\ IInv)'
      BY TypingStep, IInvStep
  <1>3. QED
      BY <1>1, <1>2, PTL DEF Spec

(* The two identity fields of a client always agree, so the lookups by id  *)
(* alone find a client that is logged in.                                  *)
THEOREM Identities == Spec => []SessionIdentity
  BY Invariance, PTL DEF IInv

(* No account is ever logged in on two sockets. *)
THEOREM OneSession == Spec => []SingleSession
  BY Invariance, PTL DEF IInv

(* The last user list sent to an authenticated client is always the        *)
(* current one.                                                            *)
THEOREM PresenceFresh == Spec => []UserListFresh
  BY Invariance, PTL DEF IInv

(* No peer is logged in or out without having been told. *)
THEOREM PeersTold == Spec => []PeerIsTold
  BY Invariance, PTL DEF IInv

(* A step that changes two sessions is a login that takes one account over *)
(* from the other.  Without SingleSession a login could end several.       *)
THEOREM StepsTouchOneSession == Spec => OneSessionPerStep
  <1> DEFINE Touch == open' # {} =>
       \A f, g \in Fds :
         f # g /\ client'[f] # client[f] /\ client'[g] # client[g]
           => \/ client[f].auth /\ client'[g].id = client[f].id
              \/ client[g].auth /\ client'[f].id = client[g].id
  <1>1. ASSUME TypeOK, IInv, [Next]_sessionVars PROVE [Touch]_sessionVars
    <2> USE <1>1 DEF TypeOK
    <2> SUFFICES ASSUME open' # {}, NEW f \in Fds, NEW g \in Fds,
                        f # g, client'[f] # client[f], client'[g] # client[g]
                 PROVE  \/ client[f].auth /\ client'[g].id = client[f].id
                        \/ client[g].auth /\ client'[f].id = client[g].id
        OBVIOUS
    <2>1. ASSUME NEW fd \in Fds, NEW v, client' = [client EXCEPT ![fd] = v] PROVE FALSE
        BY <2>1
    <2>2. ASSUME NEW fd \in Fds, NEW u \in Users, LoginAccount(fd, u)
          PROVE  \/ client[f].auth /\ client'[g].id = client[f].id
                 \/ client[g].auth /\ client'[f].id = client[g].id
      <3>1. client' = [h \in Fds |-> IF h = fd THEN [auth |-> TRUE, id |-> u]
                                     ELSE IF h \in RevokedBy(fd, u) THEN Blank
                                     ELSE client[h]]
          BY <2>2 DEF LoginAccount, LoggedIn
      <3>2. client'[fd].id = u
          BY <3>1
      <3>3. \A h \in Fds \ {fd} : client'[h] # client[h] => client[h].auth /\ client[h].id = u
          BY <3>1 DEF RevokedBy
      <3>4. QED
          BY <3>2, <3>3 DEF IInv, SingleSession
    <2>3. ~Restart
        BY DEF Restart
    <2>4. client' # client
        OBVIOUS
    <2>5. QED
        BY <2>1, <2>2, <2>3, <2>4
           DEF Next, HandleNewConnection, Disconnect, Cleared, RegisterAccount, Identified,
               LogoutAccount,
               ListUsers, UpdateStatus, sessionVars
  <1>2. QED
      BY <1>1, Invariance, PTL DEF Spec, OneSessionPerStep

-----------------------------------------------------------------------------
(* The servers in the database. *)

(* The ids are natural numbers from 1 up. *)
LEMMA IdsAreNat ==
  /\ \A s \in ServerIds : s \in Nat /\ s >= 1
  /\ \A c \in ChannelIds : c \in Nat /\ c >= 1
  BY GuildsAssumption DEF ServerIds, ChannelIds

(* The rowid of a new row is not in use. *)
LEMMA NextRowidIsFree ==
  ASSUME NEW rows \in SUBSET Nat, NEW id \in Nat, IsNextRowid(id, rows)
  PROVE  id \notin rows
  BY DEF IsNextRowid

(* The marker row of an unused channel id is no channel: its server is 0. *)
LEMMA NoChannelIsNone ==
  /\ NoChannel \notin [server : ServerIds, name : Names]
  /\ NoChannel.server \notin ServerIds
  BY IdsAreNat, GuildsAssumption DEF NoChannel

(* The empty tables are well typed and hold no orphan. *)
LEMMA RowsInit == GuildsInit => GuildsTypeOK /\ NoOrphans /\ NamesAreUnique /\ OneAdmin
  BY GuildsAssumption
     DEF GuildsInit, GuildsTypeOK, NoOrphans, NamesAreUnique, OneAdmin, Roles, ServerRows, ChannelRows

(* Every statement stores values of the columns' types. *)
LEMMA GuildsTypingStep == GuildsTypeOK /\ [GuildsNext]_guildVars => GuildsTypeOK'
  <1> SUFFICES ASSUME GuildsTypeOK, [GuildsNext]_guildVars PROVE GuildsTypeOK'
      OBVIOUS
  <1> USE DEF GuildsTypeOK, Roles
  <1>1. ASSUME NEW u \in Users, NEW n \in Names, NEW s \in ServerIds, CreateServer(u, n, s)
        PROVE  GuildsTypeOK'
      BY <1>1 DEF CreateServer, InsertServer
  <1>2. ASSUME NEW n \in Names, NEW s \in ServerIds, CreateServerHalf(n, s) PROVE GuildsTypeOK'
      BY <1>2 DEF CreateServerHalf, InsertServer
  <1>3. ASSUME NEW u \in Users, NEW s \in ServerIds, JoinServer(u, s) PROVE GuildsTypeOK'
      BY <1>3 DEF JoinServer
  <1>4. ASSUME NEW u \in Users, NEW s \in ServerIds, LeaveServer(u, s) PROVE GuildsTypeOK'
      BY <1>4 DEF LeaveServer
  <1>5. ASSUME NEW u \in Users, NEW t \in Users, NEW s \in ServerIds, KickMember(u, s, t)
        PROVE  GuildsTypeOK'
      BY <1>5 DEF KickMember
  <1>6. ASSUME NEW u \in Users, NEW s \in ServerIds, DeleteServer(u, s) PROVE GuildsTypeOK'
      BY <1>6 DEF DeleteServer
  <1>7. ASSUME NEW u \in Users \cup {NoUser}, NEW s \in ServerIds, NEW n \in Names,
               NEW c \in ChannelIds, CreateChannel(u, s, n, c)
        PROVE  GuildsTypeOK'
      BY <1>7 DEF CreateChannel
  <1>8. ASSUME NEW u \in Users \cup {NoUser}, NEW c \in ChannelIds, DeleteChannel(u, c)
        PROVE  GuildsTypeOK'
      BY <1>8 DEF DeleteChannel
  <1>9. ASSUME NEW u \in Users \cup {NoUser}, NEW c \in ChannelIds, SaveMessage(u, c)
        PROVE  GuildsTypeOK'
      BY <1>9 DEF SaveMessage
  <1>10. CASE UNCHANGED guildVars
      BY <1>10 DEF guildVars
  <1>11. QED
      BY <1>1, <1>2, <1>3, <1>4, <1>5, <1>6, <1>7, <1>8, <1>9, <1>10 DEF GuildsNext

(* The cascade leaves no orphans, and no other statement makes one: the    *)
(* foreign keys demand the row that is referred to.                        *)
LEMMA OrphansStep == GuildsTypeOK /\ NoOrphans /\ [GuildsNext]_guildVars => NoOrphans'
  <1> SUFFICES ASSUME GuildsTypeOK, NoOrphans, [GuildsNext]_guildVars PROVE NoOrphans'
      OBVIOUS
  <1> USE DEF GuildsTypeOK, Roles, NoOrphans, ServerRows, ChannelRows
  <1>n. \A n \in Names : n # NoName
      BY GuildsAssumption
  <1>1. ASSUME NEW u \in Users, NEW n \in Names, NEW s \in ServerIds, CreateServer(u, n, s)
        PROVE  NoOrphans'
      BY <1>1, <1>n DEF CreateServer, InsertServer
  <1>2. ASSUME NEW n \in Names, NEW s \in ServerIds, CreateServerHalf(n, s) PROVE NoOrphans'
      BY <1>2, <1>n DEF CreateServerHalf, InsertServer
  <1>3. ASSUME NEW u \in Users, NEW s \in ServerIds, JoinServer(u, s) PROVE NoOrphans'
      BY <1>3 DEF JoinServer
  <1>4. ASSUME NEW u \in Users, NEW s \in ServerIds, LeaveServer(u, s) PROVE NoOrphans'
      BY <1>4 DEF LeaveServer
  <1>5. ASSUME NEW u \in Users, NEW t \in Users, NEW s \in ServerIds, KickMember(u, s, t)
        PROVE  NoOrphans'
      BY <1>5 DEF KickMember
  <1>6. ASSUME NEW u \in Users, NEW s \in ServerIds, DeleteServer(u, s) PROVE NoOrphans'
    <2>1. \A t \in ServerIds : server'[t] = NoName => \A v \in Users : role'[t][v] = "none"
        BY <1>6 DEF DeleteServer
    <2>2. \A c \in ChannelIds : channel'[c] # NoChannel
            => channel'[c] = channel[c] /\ channel[c].server # s
        BY <1>6 DEF DeleteServer, ChannelsOf
    <2>3. \A c \in ChannelIds : channel'[c] # NoChannel => server'[channel'[c].server] # NoName
        BY <1>6, <2>2 DEF DeleteServer
    <2>4. \A p \in posts' : p[1] \in ChannelIds /\ channel'[p[1]] # NoChannel
        BY <1>6 DEF DeleteServer
    <2>5. \A c \in ChannelIds : channel'[c] # NoChannel => channel'[c].server \in ServerIds
        BY <2>2
    <2>6. QED
        BY <2>1, <2>3, <2>4, <2>5
  <1>7. ASSUME NEW u \in Users \cup {NoUser}, NEW s \in ServerIds, NEW n \in Names,
               NEW c \in ChannelIds, CreateChannel(u, s, n, c)
        PROVE  NoOrphans'
    <2>1. server[s] # NoName
        BY <1>7 DEF CreateChannel, IsAdmin
    <2>2. channel' = [channel EXCEPT ![c] = [server |-> s, name |-> n]]
          /\ UNCHANGED <<server, role, posts>>
        BY <1>7 DEF CreateChannel
    <2>3. [server |-> s, name |-> n] # NoChannel
        BY NoChannelIsNone
    <2>4. QED
        BY <2>1, <2>2, <2>3
  <1>8. ASSUME NEW u \in Users \cup {NoUser}, NEW c \in ChannelIds, DeleteChannel(u, c)
        PROVE  NoOrphans'
      BY <1>8 DEF DeleteChannel
  <1>9. ASSUME NEW u \in Users \cup {NoUser}, NEW c \in ChannelIds, SaveMessage(u, c)
        PROVE  NoOrphans'
      BY <1>9 DEF SaveMessage
  <1>10. CASE UNCHANGED guildVars
      BY <1>10 DEF guildVars
  <1>11. QED
      BY <1>1, <1>2, <1>3, <1>4, <1>5, <1>6, <1>7, <1>8, <1>9, <1>10 DEF GuildsNext

(* Creation checks the name against every row, and nothing else names one. *)
LEMMA NamesStep == GuildsTypeOK /\ NamesAreUnique /\ [GuildsNext]_guildVars => NamesAreUnique'
  <1> SUFFICES ASSUME GuildsTypeOK, NamesAreUnique, [GuildsNext]_guildVars PROVE NamesAreUnique'
      OBVIOUS
  <1> USE DEF GuildsTypeOK, NamesAreUnique, ServerRows, ChannelRows
  <1>1. ASSUME NEW n \in Names, NEW s \in ServerIds, InsertServer(n, s), UNCHANGED channel
        PROVE  NamesAreUnique'
      BY <1>1 DEF InsertServer
  <1>2. ASSUME NEW u \in Users, NEW s \in ServerIds, DeleteServer(u, s) PROVE NamesAreUnique'
    <2>1. \A t \in ServerIds : server'[t] # NoName => server'[t] = server[t]
        BY <1>2 DEF DeleteServer
    <2>2. \A c \in ChannelIds : channel'[c] # NoChannel => channel'[c] = channel[c]
        BY <1>2 DEF DeleteServer
    <2>3. QED
        BY <2>1, <2>2
  <1>3. ASSUME NEW u \in Users \cup {NoUser}, NEW s \in ServerIds, NEW n \in Names,
               NEW c \in ChannelIds, CreateChannel(u, s, n, c)
        PROVE  NamesAreUnique'
    <2> DEFINE row == [server |-> s, name |-> n]
    <2>1. \A d \in ChannelIds : channel[d] # row
        BY <1>3, NoChannelIsNone DEF CreateChannel, ChannelsOf
    <2>2. channel' = [channel EXCEPT ![c] = row] /\ server' = server
        BY <1>3 DEF CreateChannel
    <2>3. QED
        BY <2>1, <2>2
  <1>4. ASSUME NEW u \in Users \cup {NoUser}, NEW c \in ChannelIds, DeleteChannel(u, c)
        PROVE  NamesAreUnique'
    <2>1. \A d \in ChannelIds : channel'[d] # NoChannel => channel'[d] = channel[d]
        BY <1>4 DEF DeleteChannel
    <2>2. server' = server
        BY <1>4 DEF DeleteChannel
    <2>3. QED
        BY <2>1, <2>2
  <1>5. ASSUME UNCHANGED <<server, channel>> PROVE NamesAreUnique'
      BY <1>5
  <1>6. QED
      BY <1>1, <1>2, <1>3, <1>4, <1>5
         DEF GuildsNext, CreateServer, CreateServerHalf, JoinServer, LeaveServer, KickMember,
             SaveMessage, guildVars

(* Only the creation of a server makes an admin, and a server without a    *)
(* row has no members, so it makes the only one.                           *)
LEMMA OneAdminStep == GuildsTypeOK /\ NoOrphans /\ OneAdmin /\ [GuildsNext]_guildVars => OneAdmin'
  <1> SUFFICES ASSUME GuildsTypeOK, NoOrphans, OneAdmin, [GuildsNext]_guildVars PROVE OneAdmin'
      OBVIOUS
  <1> USE DEF GuildsTypeOK, OneAdmin
  <1>1. ASSUME NEW u \in Users, NEW n \in Names, NEW s \in ServerIds, CreateServer(u, n, s)
        PROVE  OneAdmin'
    <2>1. s \notin ServerRows
        BY <1>1, NextRowidIsFree, IdsAreNat DEF CreateServer, InsertServer, ServerRows
    <2>2. \A v \in Users : role[s][v] = "none"
        BY <2>1 DEF NoOrphans
    <2>3. role' = [role EXCEPT ![s][u] = "admin"]
        BY <1>1 DEF CreateServer
    <2>4. QED
        BY <2>2, <2>3
  <1>2. ASSUME \A s \in ServerIds, v \in Users : role'[s][v] = "admin" => role[s][v] = "admin"
        PROVE  OneAdmin'
      BY <1>2
  <1>3. ASSUME NEW u \in Users, NEW s \in ServerIds, JoinServer(u, s) PROVE OneAdmin'
      BY <1>2, <1>3 DEF JoinServer
  <1>4. ASSUME NEW u \in Users, NEW s \in ServerIds, LeaveServer(u, s) PROVE OneAdmin'
      BY <1>2, <1>4 DEF LeaveServer
  <1>5. ASSUME NEW u \in Users, NEW t \in Users, NEW s \in ServerIds, KickMember(u, s, t)
        PROVE  OneAdmin'
      BY <1>2, <1>5 DEF KickMember
  <1>6. ASSUME NEW u \in Users, NEW s \in ServerIds, DeleteServer(u, s) PROVE OneAdmin'
      BY <1>2, <1>6 DEF DeleteServer
  <1>7. CASE UNCHANGED role
      BY <1>2, <1>7
  <1>8. QED
      BY <1>1, <1>3, <1>4, <1>5, <1>6, <1>7
         DEF GuildsNext, CreateServerHalf, CreateChannel, DeleteChannel, SaveMessage, guildVars

(* The four invariants hold in every reachable state. *)
LEMMA GuildsInvariance == GuildsSpec => [](GuildsTypeOK /\ NoOrphans /\ NamesAreUnique /\ OneAdmin)
  <1>1. GuildsTypeOK /\ NoOrphans /\ NamesAreUnique /\ OneAdmin /\ [GuildsNext]_guildVars
          => (GuildsTypeOK /\ NoOrphans /\ NamesAreUnique /\ OneAdmin)'
      BY GuildsTypingStep, OrphansStep, NamesStep, OneAdminStep
  <1>2. QED
      BY <1>1, RowsInit, PTL DEF GuildsSpec

(* Every table keeps values of its columns' types. *)
THEOREM GuildsTyping == GuildsSpec => []GuildsTypeOK
  BY GuildsInvariance, PTL

(* No member, channel or message outlives what it belongs to. *)
THEOREM Integrity == GuildsSpec => []NoOrphans
  BY GuildsInvariance, PTL

(* Names identify servers, and channels within a server. *)
THEOREM UniqueNames == GuildsSpec => []NamesAreUnique
  BY GuildsInvariance, PTL

(* No server ever has two admins. *)
THEOREM SingleAdmin == GuildsSpec => []OneAdmin
  BY GuildsInvariance, PTL

-----------------------------------------------------------------------------
(* The action properties. *)

(* A server or channel row that appears takes an id without rows, and what *)
(* has no row has, by NoOrphans, no members, channels or messages.         *)
THEOREM ReuseIsClean == GuildsSpec => ReusedIdIsClean
  <1> DEFINE Clean ==
     /\ \A s \in ServerIds :
          server[s] = NoName /\ server'[s] # NoName
            => /\ \A c \in ChannelIds : channel'[c].server # s
               /\ \A u \in Users : role'[s][u] # "member"
     /\ \A c \in ChannelIds :
          channel[c] = NoChannel /\ channel'[c] # NoChannel
            => \A p \in posts' : p[1] # c
  <1>1. ASSUME GuildsTypeOK, NoOrphans, [GuildsNext]_guildVars PROVE [Clean]_guildVars
    <2> USE <1>1 DEF GuildsTypeOK, NoOrphans, ServerRows, ChannelRows
    <2>1. ASSUME NEW n \in Names, NEW s \in ServerIds, InsertServer(n, s),
                 UNCHANGED <<channel, posts>>,
                 \A t \in ServerIds, u \in Users : role'[t][u] # role[t][u] => role'[t][u] # "member"
          PROVE  Clean
      <3>1. \A c \in ChannelIds : server[channel[c].server] # NoName \/ channel[c] = NoChannel
          OBVIOUS
      <3>2. \A t \in ServerIds : server[t] = NoName => \A c \in ChannelIds : channel[c].server # t
          BY <3>1, NoChannelIsNone
      <3>3. QED
          BY <2>1, <3>2
    <2>2. ASSUME server' = server, channel' = channel PROVE Clean
        BY <2>2
    <2>3. ASSUME NEW u \in Users, NEW s \in ServerIds, DeleteServer(u, s) PROVE Clean
      <3>1. \A t \in ServerIds : server'[t] # NoName => server'[t] = server[t]
          BY <2>3 DEF DeleteServer
      <3>2. \A c \in ChannelIds : channel'[c] # NoChannel => channel'[c] = channel[c]
          BY <2>3 DEF DeleteServer
      <3>3. QED
          BY <3>1, <3>2
    <2>4. ASSUME NEW u \in Users \cup {NoUser}, NEW s \in ServerIds, NEW n \in Names,
                 NEW c \in ChannelIds, CreateChannel(u, s, n, c)
          PROVE  Clean
        BY <2>4, NextRowidIsFree, IdsAreNat DEF CreateChannel
    <2>5. ASSUME NEW u \in Users \cup {NoUser}, NEW c \in ChannelIds, DeleteChannel(u, c)
          PROVE  Clean
        BY <2>5 DEF DeleteChannel
    <2>6. ASSUME NEW u \in Users, NEW n \in Names, NEW s \in ServerIds, CreateServer(u, n, s)
          PROVE  Clean
        BY <2>1, <2>6 DEF CreateServer
    <2>7. ASSUME NEW n \in Names, NEW s \in ServerIds, CreateServerHalf(n, s) PROVE Clean
        BY <2>1, <2>7 DEF CreateServerHalf
    <2>8. ASSUME NEW u, NEW t, NEW s,
                 \/ JoinServer(u, s) \/ LeaveServer(u, s) \/ KickMember(u, s, t) \/ SaveMessage(u, s)
          PROVE  Clean
        BY <2>2, <2>8 DEF JoinServer, LeaveServer, KickMember, SaveMessage
    <2> HIDE DEF Clean
    <2>9. CASE GuildsNext
        BY <2>3, <2>4, <2>5, <2>6, <2>7, <2>8, <2>9 DEF GuildsNext
    <2>10. QED
        BY <2>9
  <1>2. QED
      BY <1>1, GuildsInvariance, PTL DEF GuildsSpec, ReusedIdIsClean

(* Deleting a server and changing its channels take an admin, and only the *)
(* creation of a row makes one: without an admin none of them can happen.  *)
THEOREM OwnerlessStays == GuildsSpec => OwnerlessForGood
  <1> DEFINE Frozen(s) ==
       Ownerless(s) => /\ Ownerless(s)'
                       /\ server'[s] = server[s]
                       /\ \A c \in ChannelIds :
                            (channel[c].server = s \/ channel'[c].server = s)
                              => channel'[c] = channel[c]
  <1>1. ASSUME GuildsTypeOK, [GuildsNext]_guildVars PROVE [\A s \in ServerIds : Frozen(s)]_guildVars
    <2> USE <1>1 DEF GuildsTypeOK
    <2> SUFFICES ASSUME NEW s \in ServerIds, Ownerless(s), ~UNCHANGED guildVars
                 PROVE  Frozen(s)
        OBVIOUS
    <2> USE DEF Ownerless, ServerRows, ChannelRows
    <2>1. ASSUME server'[s] = server[s],
                 \A u \in Users : role'[s][u] = "admin" => role[s][u] = "admin",
                 \A c \in ChannelIds : (channel[c].server = s \/ channel'[c].server = s)
                                         => channel'[c] = channel[c]
          PROVE  Frozen(s)
        BY <2>1
    <2>2. \A u \in Users \cup {NoUser} : ~IsAdmin(u, s)
        BY DEF IsAdmin
    <2>3. ASSUME NEW n \in Names, NEW t \in ServerIds, InsertServer(n, t) PROVE s # t
        BY <2>3, NextRowidIsFree, IdsAreNat DEF InsertServer
    <2>4. ASSUME NEW u \in Users, NEW n \in Names, NEW t \in ServerIds, CreateServer(u, n, t)
          PROVE  Frozen(s)
        BY <2>1, <2>3, <2>4 DEF CreateServer, InsertServer
    <2>5. ASSUME NEW n \in Names, NEW t \in ServerIds, CreateServerHalf(n, t) PROVE Frozen(s)
        BY <2>1, <2>3, <2>5 DEF CreateServerHalf, InsertServer
    <2>6. ASSUME NEW u \in Users, NEW t \in ServerIds, JoinServer(u, t) PROVE Frozen(s)
        BY <2>1, <2>6 DEF JoinServer
    <2>7. ASSUME NEW u \in Users, NEW t \in ServerIds, LeaveServer(u, t) PROVE Frozen(s)
        BY <2>1, <2>7 DEF LeaveServer
    <2>8. ASSUME NEW u \in Users, NEW v \in Users, NEW t \in ServerIds, KickMember(u, t, v)
          PROVE  Frozen(s)
        BY <2>1, <2>8 DEF KickMember
    <2>9. ASSUME NEW u \in Users, NEW t \in ServerIds, DeleteServer(u, t) PROVE Frozen(s)
      <3>1. s # t
          BY <2>2, <2>9 DEF DeleteServer
      <3>2. \A c \in ChannelIds :
              (channel[c].server = s \/ channel'[c].server = s) => channel'[c] = channel[c]
          BY <2>9, <3>1, NoChannelIsNone DEF DeleteServer, ChannelsOf
      <3>3. QED
          BY <2>1, <2>9, <3>1, <3>2 DEF DeleteServer
    <2>10. ASSUME NEW u \in Users \cup {NoUser}, NEW t \in ServerIds, NEW n \in Names,
                  NEW c \in ChannelIds, CreateChannel(u, t, n, c)
           PROVE  Frozen(s)
      <3>1. s # t
          BY <2>2, <2>10 DEF CreateChannel
      <3>2. channel[c] = NoChannel
          BY <2>10, NextRowidIsFree, IdsAreNat DEF CreateChannel
      <3>3. QED
          BY <2>1, <2>10, <3>1, <3>2, NoChannelIsNone DEF CreateChannel
    <2>11. ASSUME NEW u \in Users \cup {NoUser}, NEW c \in ChannelIds, DeleteChannel(u, c)
           PROVE  Frozen(s)
      <3>1. channel[c].server # s
          BY <2>2, <2>11 DEF DeleteChannel
      <3>2. QED
          BY <2>1, <2>11, <3>1, NoChannelIsNone DEF DeleteChannel
    <2>12. ASSUME NEW u \in Users \cup {NoUser}, NEW c \in ChannelIds, SaveMessage(u, c)
           PROVE  Frozen(s)
        BY <2>1, <2>12 DEF SaveMessage
    <2> HIDE DEF Frozen
    <2>13. CASE GuildsNext
        BY <2>4, <2>5, <2>6, <2>7, <2>8, <2>9, <2>10, <2>11, <2>12, <2>13 DEF GuildsNext
    <2>14. QED
        BY <2>13
  <1>2. QED
      BY <1>1, GuildsInvariance, PTL DEF GuildsSpec, OwnerlessForGood
=============================================================================
