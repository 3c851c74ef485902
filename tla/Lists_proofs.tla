----------------------------- MODULE Lists_proofs -----------------------------
(***************************************************************************)
(* Proofs about the lists the server sends: what the member lists          *)
(* (MemberLists) and the friend lists (Friends) say, and that a list comes *)
(* whole (ListStream).                                                     *)
(*                                                                         *)
(* MemberLists, for any descriptors, users and id bounds.  Every step is a *)
(* step of Sessions or leaves its state alone, and likewise for Guilds, so *)
(* what is proved of each component alone holds of the composition.  On    *)
(* those invariants stand the two properties of the member lists.          *)
(*                                                                         *)
(* Friends, for any set of users.  OneRowPerPair is what the refinement of *)
(* Friendship stands on: the handlers test and change one direction at a   *)
(* time, and only because the other direction is then empty do both sides  *)
(* see the same step.                                                      *)
(*                                                                         *)
(* ListStream, for any sizes of the accumulators and of the client's       *)
(* arrays, any length of the lists, any number of ids from three up and    *)
(* any number of frames on their way.  ListsArriveWhole is about the       *)
(* client once it has read every frame that is on its way.  Each list that *)
(* is sent adds frames at the end, so the inductive invariant (Arriving)   *)
(* is about that screen at every moment: it says that there are screens to *)
(* pass through, one after every frame, and that the last of them is what  *)
(* is due.  IdsTellStreams needs the counter to be one past the id of the  *)
(* last stream under way (CounterFollows).                                 *)
(***************************************************************************)
EXTENDS MemberLists, Friends, ListStream, SequenceTheorems, TLAPS

-----------------------------------------------------------------------------
(* MemberLists. *)

SV == INSTANCE Server_proofs

-----------------------------------------------------------------------------
(* The components' theorems, in the names of this module. *)

(* The instance the theorems are about is the instance the model uses. *)
LEMMA SameSessions ==
  /\ S!Init <=> SV!Init
  /\ [S!Next]_(S!sessionVars) <=> [SV!Next]_(SV!sessionVars)
  /\ S!TypeOK <=> SV!TypeOK
  /\ S!SessionIdentity <=> SV!SessionIdentity
  <1> USE DEF S!Blank, SV!Blank, S!NoList, SV!NoList, S!NotListed, SV!NotListed,
              S!Cardinality, SV!Cardinality, S!Rows, SV!Rows
  <1>1. S!Init <=> SV!Init
      BY DEF S!Init, SV!Init
  <1>2. [S!Next]_(S!sessionVars) <=> [SV!Next]_(SV!sessionVars)
      BY DEF S!Next, S!HandleNewConnection, S!Disconnect, S!RegisterAccount, S!LoginAccount,
             S!LogoutAccount, S!ListUsers, S!UpdateStatus, S!Restart, S!HasRoom, S!Cleared,
             S!Identified, S!LoggedIn, S!RevokedBy, S!NotifyAllUserLists, S!UserRows,
             S!UserRowsOf, S!ClientIsOnline, S!sessionVars,
             SV!Next, SV!HandleNewConnection, SV!Disconnect, SV!RegisterAccount, SV!LoginAccount,
             SV!LogoutAccount, SV!ListUsers, SV!UpdateStatus, SV!Restart, SV!HasRoom, SV!Cleared,
             SV!Identified, SV!LoggedIn, SV!RevokedBy, SV!NotifyAllUserLists, SV!UserRows,
             SV!UserRowsOf, SV!ClientIsOnline, SV!sessionVars
  <1>3. S!TypeOK <=> SV!TypeOK
      BY DEF S!TypeOK, SV!TypeOK
  <1>4. S!SessionIdentity <=> SV!SessionIdentity
      BY DEF S!SessionIdentity, SV!SessionIdentity
  <1>5. QED
      BY <1>1, <1>2, <1>3, <1>4

(* And so is the instance of the servers in the database.                  *)
LEMMA SameGuilds ==
  /\ G!GuildsInit <=> SV!GuildsInit
  /\ [G!GuildsNext]_(G!guildVars) <=> [SV!GuildsNext]_(SV!guildVars)
  /\ G!GuildsTypeOK <=> SV!GuildsTypeOK
  /\ G!NoOrphans <=> SV!NoOrphans
  /\ G!OneAdmin <=> SV!OneAdmin
  <1> USE DEF G!ServerIds, SV!ServerIds, G!ChannelIds, SV!ChannelIds, G!NoChannel, SV!NoChannel,
              G!ServerRows, SV!ServerRows, G!ChannelRows, SV!ChannelRows
  <1>1. G!GuildsInit <=> SV!GuildsInit
      BY DEF G!GuildsInit, SV!GuildsInit
  <1>2. [G!GuildsNext]_(G!guildVars) <=> [SV!GuildsNext]_(SV!guildVars)
      BY DEF G!GuildsNext, G!CreateServer, G!CreateServerHalf, G!InsertServer, G!JoinServer,
             G!LeaveServer, G!KickMember, G!DeleteServer, G!CreateChannel, G!DeleteChannel,
             G!SaveMessage, G!IsAdmin, G!IsNextRowid, G!ChannelsOf, G!guildVars,
             SV!GuildsNext, SV!CreateServer, SV!CreateServerHalf, SV!InsertServer, SV!JoinServer,
             SV!LeaveServer, SV!KickMember, SV!DeleteServer, SV!CreateChannel, SV!DeleteChannel,
             SV!SaveMessage, SV!IsAdmin, SV!IsNextRowid, SV!ChannelsOf, SV!guildVars
  <1>3. G!GuildsTypeOK <=> SV!GuildsTypeOK
      BY DEF G!GuildsTypeOK, SV!GuildsTypeOK, G!Roles, SV!Roles
  <1>4. (G!NoOrphans <=> SV!NoOrphans) /\ (G!OneAdmin <=> SV!OneAdmin)
      BY DEF G!NoOrphans, SV!NoOrphans, G!OneAdmin, SV!OneAdmin
  <1>5. QED
      BY <1>1, <1>2, <1>3, <1>4

(* What is proved of Sessions, of the instance. *)
LEMMA SessionsInvariance == S!Spec => [](S!TypeOK /\ S!SessionIdentity)
  <1>1. SV!Spec => [](SV!TypeOK /\ SV!SessionIdentity)
      BY SV!Typing, SV!Identities, AccountsAssumption, MemberListsAssumption, PTL
         DEF IsFiniteSet, SV!IsFiniteSet
  <1>2. QED
      BY <1>1, SameSessions, PTL DEF S!Spec, SV!Spec

(* And what is proved of Guilds. *)
LEMMA GuildsInvariance == G!GuildsSpec => [](G!GuildsTypeOK /\ G!NoOrphans /\ G!OneAdmin)
  <1>1. SV!GuildsSpec => [](SV!GuildsTypeOK /\ SV!NoOrphans /\ SV!OneAdmin)
      BY SV!GuildsTyping, SV!Integrity, SV!SingleAdmin, AccountsAssumption, MemberListsAssumption, PTL
         DEF IsFiniteSet, SV!IsFiniteSet
  <1>2. QED
      BY <1>1, SameGuilds, PTL DEF G!GuildsSpec, SV!GuildsSpec

-----------------------------------------------------------------------------
(* The composition implements its components. *)

(* Every handler does to the client table what its part in Sessions does,  *)
(* or leaves the table alone.                                              *)
LEMMA SessionsStep == [MembersNext]_memberVars => [S!Next]_(S!sessionVars)
  <1> SUFFICES ASSUME [MembersNext]_memberVars PROVE S!Next \/ UNCHANGED sessionVars
      BY DEF sessionVars, S!sessionVars
  <1>1. ASSUME NEW fd \in Fds, HandleNewConnection(fd) PROVE S!Next
      BY <1>1 DEF HandleNewConnection, S!Next
  <1>2. ASSUME NEW fd \in Fds, Disconnect(fd) PROVE S!Next
      BY <1>2 DEF Disconnect, S!Next
  <1>3. ASSUME NEW fd \in Fds, NEW u \in Users, RegisterAccount(fd, u) PROVE S!Next
      BY <1>3 DEF RegisterAccount, S!Next
  <1>4. ASSUME NEW fd \in Fds, NEW u \in Users, LoginAccount(fd, u) PROVE S!Next
      BY <1>4 DEF LoginAccount, S!Next
  <1>5. ASSUME NEW fd \in Fds, LogoutAccount(fd) PROVE S!Next
      BY <1>5 DEF LogoutAccount, S!Next
  <1>6. CASE Restart
      BY <1>6 DEF Restart, S!Next
  <1>7. CASE UNCHANGED memberVars
      BY <1>7 DEF memberVars, sessionVars
  <1>8. QED
      BY <1>1, <1>2, <1>3, <1>4, <1>5, <1>6, <1>7
         DEF MembersNext, ListMembers, JoinServer, LeaveServer, CreateServer, DeleteServer,
             KickServerMember

(* An authenticated client has the id of a registered user, so what it     *)
(* asks for is a request Guilds knows.                                     *)
LEMMA GuildsStep ==
  ASSUME S!TypeOK, S!SessionIdentity, [MembersNext]_memberVars
  PROVE  [G!GuildsNext]_(G!guildVars)
  <1> SUFFICES G!GuildsNext \/ UNCHANGED guildVars
      BY DEF guildVars, G!guildVars
  <1>0. \A fd \in Fds : client[fd].auth => client[fd].id \in Users
      BY DEF S!TypeOK, S!SessionIdentity
  <1>s. ServerIds = G!ServerIds
      BY DEF ServerIds
  <1>1. ASSUME NEW fd \in Fds, NEW s \in ServerIds, JoinServer(fd, s) PROVE G!GuildsNext
      BY <1>0, <1>s, <1>1 DEF JoinServer, G!GuildsNext
  <1>2. ASSUME NEW fd \in Fds, NEW s \in ServerIds, LeaveServer(fd, s) PROVE G!GuildsNext
      BY <1>0, <1>s, <1>2 DEF LeaveServer, G!GuildsNext
  <1>3. ASSUME NEW fd \in Fds, NEW n \in Names, NEW s \in ServerIds, CreateServer(fd, n, s)
        PROVE  G!GuildsNext
      BY <1>0, <1>s, <1>3 DEF CreateServer, G!GuildsNext
  <1>4. ASSUME NEW fd \in Fds, NEW s \in ServerIds, DeleteServer(fd, s) PROVE G!GuildsNext
      BY <1>0, <1>s, <1>4 DEF DeleteServer, G!GuildsNext
  <1>5. ASSUME NEW fd \in Fds, NEW s \in ServerIds, NEW t \in Users, KickServerMember(fd, s, t)
        PROVE  G!GuildsNext
      BY <1>0, <1>s, <1>5 DEF KickServerMember, G!GuildsNext
  <1>6. CASE UNCHANGED memberVars
      BY <1>6 DEF memberVars, guildVars
  <1>7. QED
      BY <1>1, <1>2, <1>3, <1>4, <1>5, <1>6
         DEF MembersNext, HandleNewConnection, Disconnect, RegisterAccount, LoginAccount,
             LogoutAccount, Restart, ListMembers

(* The composition does to the client table what Sessions allows, whatever *)
(* the requests about servers do in between.                               *)
THEOREM ImplementsSessions == MembersSpec => S!Spec
  <1>1. MembersInit => S!Init
      BY DEF MembersInit
  <1>2. QED
      BY <1>1, SessionsStep, PTL DEF MembersSpec, S!Spec

(* And to the servers what Guilds allows.  Here the sessions matter: only  *)
(* since a client without an account is not authenticated is every request *)
(* one of a registered user.                                               *)
THEOREM ImplementsGuilds == MembersSpec => G!GuildsSpec
  <1>1. MembersInit => G!GuildsInit
      BY DEF MembersInit
  <1>2. MembersSpec => [](S!TypeOK /\ S!SessionIdentity)
      BY ImplementsSessions, SessionsInvariance, PTL
  <1>3. QED
      BY <1>1, <1>2, GuildsStep, PTL DEF MembersSpec, G!GuildsSpec

(* The components' invariants, in the composition. *)
LEMMA Components ==
  MembersSpec => [](S!TypeOK /\ S!SessionIdentity /\ G!GuildsTypeOK /\ G!NoOrphans /\ G!OneAdmin)
  BY ImplementsSessions, ImplementsGuilds, SessionsInvariance, GuildsInvariance, PTL

-----------------------------------------------------------------------------
(* The invariants of the composition's own state. *)

(* A member of a server is a registered user. *)
MembersExist == \A s \in ServerIds, u \in Users : role[s][u] # "none" => u \in accounts

(* The types of the two variables of the composition. *)
ListTypes ==
  /\ viewing \in [Fds -> ServerIds \cup {NoServer}]
  /\ memberList \in [Fds -> [Users -> [member : BOOLEAN, admin : BOOLEAN, online : BOOLEAN]]]

(* What is proved by induction here; the components' invariants are given. *)
ListInv ==
  /\ ListTypes
  /\ \A f \in Fds \ open : viewing[f] = NoServer /\ memberList[f] = NoMembers
  /\ OnlySessionsView
  /\ MembersExist

(* The rows of an answer are well typed. *)
LEMMA RowsTyped ==
  ASSUME NEW R, NEW O, NEW C, NEW s
  PROVE  /\ NoMembers \in [Users -> [member : BOOLEAN, admin : BOOLEAN, online : BOOLEAN]]
         /\ MemberRows(R, O, C, s)
              \in [Users -> [member : BOOLEAN, admin : BOOLEAN, online : BOOLEAN]]
  BY DEF NoMembers, NotMember, MemberRows, S!ClientIsOnline

(* notify_server_member_list keeps the lists well typed, and a descriptor  *)
(* that is not in the table without one.                                   *)
LEMMA NotifyTyped ==
  ASSUME ListTypes, NEW SS, NEW R, NEW O, NEW C, NEW V
  PROVE  /\ NotifyMemberLists(SS, R, O, C, V)
              \in [Fds -> [Users -> [member : BOOLEAN, admin : BOOLEAN, online : BOOLEAN]]]
         /\ \A f \in Fds \ O : NotifyMemberLists(SS, R, O, C, V)[f] = NoMembers
  BY RowsTyped DEF NotifyMemberLists, ListTypes

(* Every handler that clears an identity also clears what it views.        *)
LEMMA ListInvStep ==
  ASSUME S!TypeOK, S!SessionIdentity, G!GuildsTypeOK, ListInv, [MembersNext]_memberVars
  PROVE  ListInv'
  <1> USE DEF S!TypeOK, G!GuildsTypeOK, ListInv, OnlySessionsView, MembersExist
  <1>z. ServerIds = G!ServerIds /\ NoServer \notin ServerIds
      BY MemberListsAssumption DEF ServerIds, G!ServerIds, NoServer
  <1>b. S!Blank.auth = FALSE
      BY DEF S!Blank
  <1>m. NoMembers \in [Users -> [member : BOOLEAN, admin : BOOLEAN, online : BOOLEAN]]
      BY RowsTyped
  <1>1. ASSUME NEW fd \in Fds, HandleNewConnection(fd) PROVE ListInv'
      BY <1>1, <1>b, <1>m DEF HandleNewConnection, S!HandleNewConnection, guildVars, ListTypes
  <1>2. ASSUME NEW fd \in Fds, Disconnect(fd) PROVE ListInv'
    <2>1. /\ open' = open \ {fd}
          /\ client' = [client EXCEPT ![fd] = S!Blank]
          /\ viewing' = [viewing EXCEPT ![fd] = NoServer]
          /\ UNCHANGED <<accounts, role>>
        BY <1>2 DEF Disconnect, S!Disconnect, S!Cleared, guildVars
    <2>2. /\ memberList' \in [Fds -> [Users -> [member : BOOLEAN, admin : BOOLEAN, online : BOOLEAN]]]
          /\ \A f \in Fds \ open' : memberList'[f] = NoMembers
      <3>1. CASE client[fd].auth
          BY <1>2, <2>1, <3>1, NotifyTyped DEF Disconnect
      <3>2. CASE ~client[fd].auth
          BY <1>2, <2>1, <3>2, <1>m DEF Disconnect, ListTypes
      <3>3. QED
          BY <3>1, <3>2
    <2>3. QED
        BY <2>1, <2>2, <1>b DEF ListTypes
  <1>3. ASSUME NEW fd \in Fds, NEW u \in Users, RegisterAccount(fd, u) PROVE ListInv'
    <2>1. /\ client' = [client EXCEPT ![fd] = [auth |-> TRUE, id |-> u]]
          /\ accounts' = accounts \cup {u}
          /\ UNCHANGED <<open, role, viewing, memberList>>
        BY <1>3 DEF RegisterAccount, S!RegisterAccount, S!Identified, guildVars
    <2>2. QED
        BY <2>1 DEF ListTypes
  <1>4. ASSUME NEW fd \in Fds, NEW u \in Users, LoginAccount(fd, u) PROVE ListInv'
    <2>1. /\ client' = [f \in Fds |-> IF f = fd THEN [auth |-> TRUE, id |-> u]
                                      ELSE IF f \in S!RevokedBy(fd, u) THEN S!Blank
                                      ELSE client[f]]
          /\ viewing' = [f \in Fds |-> IF f \in S!RevokedBy(fd, u) THEN NoServer ELSE viewing[f]]
          /\ fd \in open /\ fd \notin S!RevokedBy(fd, u)
          /\ UNCHANGED <<open, role, accounts>>
        BY <1>4 DEF LoginAccount, S!LoginAccount, S!LoggedIn, S!RevokedBy, guildVars
    <2>2. /\ memberList' \in [Fds -> [Users -> [member : BOOLEAN, admin : BOOLEAN, online : BOOLEAN]]]
          /\ \A f \in Fds \ open' : memberList'[f] = NoMembers
        BY <1>4, <2>1, NotifyTyped DEF LoginAccount
    <2>3. QED
        BY <2>1, <2>2 DEF ListTypes
  <1>5. ASSUME NEW fd \in Fds, LogoutAccount(fd) PROVE ListInv'
    <2>1. /\ client' = [client EXCEPT ![fd] = S!Blank]
          /\ viewing' = [viewing EXCEPT ![fd] = NoServer]
          /\ UNCHANGED <<open, role, accounts>>
        BY <1>5 DEF LogoutAccount, S!LogoutAccount, S!Cleared, guildVars
    <2>2. /\ memberList' \in [Fds -> [Users -> [member : BOOLEAN, admin : BOOLEAN, online : BOOLEAN]]]
          /\ \A f \in Fds \ open' : memberList'[f] = NoMembers
        BY <1>5, <2>1, NotifyTyped DEF LogoutAccount
    <2>3. QED
        BY <2>1, <2>2, <1>b DEF ListTypes
  <1>6. CASE Restart
      BY <1>6, <1>m DEF Restart, S!Restart, guildVars, ListTypes
  <1>7. ASSUME NEW fd \in Fds, NEW s \in ServerIds, ListMembers(fd, s) PROVE ListInv'
    <2>1. MemberRows(role, open, client, s)
            \in [Users -> [member : BOOLEAN, admin : BOOLEAN, online : BOOLEAN]]
        BY RowsTyped
    <2>2. QED
        BY <1>7, <2>1 DEF ListMembers, sessionVars, guildVars, ListTypes
  <1>8. ASSUME NEW fd \in Fds, NEW s \in ServerIds, JoinServer(fd, s) PROVE ListInv'
    <2>1. /\ role' = [role EXCEPT ![s][client[fd].id] = "member"]
          /\ client[fd].id \in accounts
          /\ UNCHANGED <<sessionVars, viewing>>
        BY <1>8 DEF JoinServer, G!JoinServer, S!SessionIdentity
    <2>2. /\ memberList' \in [Fds -> [Users -> [member : BOOLEAN, admin : BOOLEAN, online : BOOLEAN]]]
          /\ \A f \in Fds \ open : memberList'[f] = NoMembers
        BY <1>8, NotifyTyped DEF JoinServer
    <2>3. MembersExist'
        BY <2>1, <1>z DEF sessionVars
    <2>4. QED
        BY <2>1, <2>2, <2>3 DEF ListTypes, sessionVars
  <1>9. ASSUME NEW fd \in Fds, NEW s \in ServerIds, LeaveServer(fd, s) PROVE ListInv'
    <2>1. /\ role' = [role EXCEPT ![s][client[fd].id] = "none"]
          /\ client[fd].id \in Users
          /\ UNCHANGED sessionVars
          /\ viewing' = IF viewing[fd] = s THEN [viewing EXCEPT ![fd] = NoServer] ELSE viewing
        BY <1>9 DEF LeaveServer, G!LeaveServer, S!SessionIdentity
    <2>2. /\ memberList' \in [Fds -> [Users -> [member : BOOLEAN, admin : BOOLEAN, online : BOOLEAN]]]
          /\ \A f \in Fds \ open : memberList'[f] = NoMembers
        BY <1>9, NotifyTyped DEF LeaveServer
    <2>3. MembersExist'
        BY <2>1, <1>z DEF sessionVars
    <2>4. QED
        BY <2>1, <2>2, <2>3 DEF ListTypes, sessionVars
  <1>10. ASSUME NEW fd \in Fds, NEW n \in Names, NEW s \in ServerIds, CreateServer(fd, n, s)
         PROVE  ListInv'
    <2>1. /\ role' = [role EXCEPT ![s][client[fd].id] = "admin"] \/ role' = role
          /\ client[fd].id \in accounts
          /\ UNCHANGED <<sessionVars, viewing, memberList>>
        BY <1>10 DEF CreateServer, G!CreateServer, G!CreateServerHalf, S!SessionIdentity
    <2>2. MembersExist'
        BY <2>1, <1>z DEF sessionVars
    <2>3. QED
        BY <2>1, <2>2 DEF ListTypes, sessionVars
  <1>11. ASSUME NEW fd \in Fds, NEW s \in ServerIds, DeleteServer(fd, s) PROVE ListInv'
    <2>1. /\ role' = [role EXCEPT ![s] = [v \in Users |-> "none"]]
          /\ UNCHANGED <<sessionVars, viewing, memberList>>
        BY <1>11 DEF DeleteServer, G!DeleteServer
    <2>2. MembersExist'
        BY <2>1, <1>z DEF sessionVars
    <2>3. QED
        BY <2>1, <2>2 DEF ListTypes, sessionVars
  <1>12. ASSUME NEW fd \in Fds, NEW s \in ServerIds, NEW t \in Users, KickServerMember(fd, s, t)
         PROVE  ListInv'
    <2>1. /\ role' = [role EXCEPT ![s][t] = "none"]
          /\ UNCHANGED <<sessionVars, viewing, memberList>>
        BY <1>12 DEF KickServerMember, G!KickMember
    <2>2. MembersExist'
        BY <2>1, <1>z DEF sessionVars
    <2>3. QED
        BY <2>1, <2>2 DEF ListTypes, sessionVars
  <1>13. CASE UNCHANGED memberVars
      BY <1>13 DEF memberVars, ListTypes
  <1>14. QED
      BY <1>1, <1>2, <1>3, <1>4, <1>5, <1>6, <1>7, <1>8, <1>9, <1>10, <1>11, <1>12, <1>13
         DEF MembersNext

(* Nobody views a server and nobody holds a list at the start.             *)
LEMMA ListInvInit == MembersInit => ListInv
  BY RowsTyped, MemberListsAssumption
     DEF MembersInit, S!Init, G!GuildsInit, ListInv, ListTypes, OnlySessionsView, MembersExist, ServerIds

(* What holds of the views and the lists holds throughout.                 *)
LEMMA ListInvariance == MembersSpec => []ListInv
  BY ListInvInit, ListInvStep, Components, PTL DEF MembersSpec

(* Both components' states and the lists are well typed, and a descriptor  *)
(* that is not in the table views nothing and holds no list.               *)
THEOREM MembersTyping == MembersSpec => []MembersTypeOK
  BY Components, ListInvariance, PTL DEF MembersTypeOK, ListInv, ListTypes

(* A client that is not logged in views no server: logout, take-over and   *)
(* loss of the connection all clear current_server_index.                  *)
THEOREM ViewersAreLoggedIn == MembersSpec => []OnlySessionsView
  BY ListInvariance, PTL DEF ListInv

-----------------------------------------------------------------------------
(* Freshness of the pushed lists. *)

(* What may make the list of s stale, as StaleOnlyUnannounced names it. *)
Unannounced(s) ==
  \/ \E fd \in Fds, u \in Users : KickServerMember(fd, s, u)
  \/ \E fd \in Fds : DeleteServer(fd, s)
  \/ server[s] = NoName /\ server'[s] # NoName
  \/ \E fd \in Fds : SwitchesAccount(fd) /\ role[s][client[fd].id] # "none"

(* After any other step a viewer of s either has just been sent the rows,  *)
(* or viewed s before and the rows are what they were.                     *)
LEMMA FreshStep ==
  ASSUME S!TypeOK, S!TypeOK', S!SessionIdentity, G!GuildsTypeOK, ListInv, [MembersNext]_memberVars,
         NEW s \in ServerIds, MembersFresh(s), ~Unannounced(s)
  PROVE  MembersFresh(s)'
  <1> USE DEF S!TypeOK, G!GuildsTypeOK, ListInv, ListTypes
  <1> SUFFICES ASSUME NEW f \in open', client'[f].auth, viewing'[f] = s
               PROVE  memberList'[f] = MemberRows(role', open', client', s)
      BY DEF MembersFresh
  <1>f. f \in Fds
      OBVIOUS
  <1>z. ServerIds = G!ServerIds /\ s # NoServer
      BY MemberListsAssumption DEF ServerIds, G!ServerIds, NoServer
  <1>b. S!Blank.auth = FALSE
      BY DEF S!Blank
  <1>0. /\ \A g \in Fds : client[g].auth => g \in open /\ client[g].id \in accounts
        /\ \A g \in Fds : ~client[g].auth => viewing[g] = NoServer
      BY DEF S!SessionIdentity, OnlySessionsView
  <1>k. ASSUME f \in open, client[f].auth, viewing[f] = s, memberList'[f] = memberList[f],
               role'[s] = role[s],
               \A u \in Users : role[s][u] # "none" =>
                 (S!ClientIsOnline(open, client, u) <=> S!ClientIsOnline(open', client', u))
        PROVE  memberList'[f] = MemberRows(role', open', client', s)
    <2>1. \A u \in Users : role[s][u] # "none" =>
            S!ClientIsOnline(open, client, u) = S!ClientIsOnline(open', client', u)
        BY <1>k DEF S!ClientIsOnline
    <2>2. MemberRows(role, open, client, s) = MemberRows(role', open', client', s)
        BY <1>k, <2>1 DEF MemberRows
    <2>3. QED
        BY <1>k, <2>2 DEF MembersFresh
  <1>n. ASSUME NEW SS, s \in SS,
               memberList' = NotifyMemberLists(SS, role', open', client', viewing')
        PROVE  memberList'[f] = MemberRows(role', open', client', s)
      BY <1>n, <1>f DEF NotifyMemberLists
  <1>o. ASSUME NEW SS, s \notin SS,
               memberList' = NotifyMemberLists(SS, role', open', client', viewing')
        PROVE  memberList'[f] = memberList[f]
      BY <1>o, <1>f DEF NotifyMemberLists
  <1>1. ASSUME NEW fd \in Fds, HandleNewConnection(fd)
        PROVE  memberList'[f] = MemberRows(role', open', client', s)
    <2>1. /\ fd \notin open /\ open' = open \cup {fd}
          /\ client' = [client EXCEPT ![fd] = S!Blank]
          /\ viewing' = [viewing EXCEPT ![fd] = NoServer]
          /\ memberList' = [memberList EXCEPT ![fd] = NoMembers]
          /\ role' = role
        BY <1>1 DEF HandleNewConnection, S!HandleNewConnection, guildVars
    <2>2. f # fd /\ f \in open
        BY <2>1, <1>z
    <2>3. \A u : S!ClientIsOnline(open, client, u) <=> S!ClientIsOnline(open', client', u)
        BY <2>1, <1>b, <1>0 DEF S!ClientIsOnline
    <2>4. QED
        BY <2>1, <2>2, <2>3, <1>k
  <1>2. ASSUME NEW fd \in Fds, Disconnect(fd)
        PROVE  memberList'[f] = MemberRows(role', open', client', s)
    <2>1. /\ open' = open \ {fd}
          /\ client' = [client EXCEPT ![fd] = S!Blank]
          /\ viewing' = [viewing EXCEPT ![fd] = NoServer]
          /\ role' = role
        BY <1>2 DEF Disconnect, S!Disconnect, S!Cleared, guildVars
    <2>2. f # fd /\ f \in open /\ client'[f] = client[f] /\ viewing'[f] = viewing[f]
        BY <2>1, <1>z
    <2>3. ASSUME NEW u \in Users, ~(client[fd].auth /\ client[fd].id = u)
          PROVE  S!ClientIsOnline(open, client, u) <=> S!ClientIsOnline(open', client', u)
        BY <2>1, <2>3, <1>b DEF S!ClientIsOnline
    <2>4. CASE client[fd].auth
      <3> DEFINE SS == JoinedServers(client[fd].id)
      <3>1. memberList' = NotifyMemberLists(SS, role', open', client', viewing')
          BY <1>2, <2>1, <2>4 DEF Disconnect, S!Cleared
      <3>2. CASE s \in SS
          BY <3>1, <3>2, <1>n
      <3>3. CASE s \notin SS
        <4>1. client[fd].id \in Users => role[s][client[fd].id] = "none"
            BY <3>3 DEF JoinedServers
        <4>2. memberList'[f] = memberList[f]
            BY <3>1, <3>3, <1>o, <2>2
        <4>3. QED
            BY <4>1, <4>2, <2>1, <2>2, <2>3, <1>k
      <3>4. QED
          BY <3>2, <3>3
    <2>5. CASE ~client[fd].auth
      <3>1. memberList' = [memberList EXCEPT ![fd] = NoMembers]
          BY <1>2, <2>5 DEF Disconnect
      <3>2. memberList'[f] = memberList[f]
          BY <3>1, <2>2
      <3>3. QED
          BY <3>2, <2>1, <2>2, <2>3, <2>5, <1>k
    <2>6. QED
        BY <2>4, <2>5
  <1>3. ASSUME NEW fd \in Fds, NEW u \in Users, RegisterAccount(fd, u)
        PROVE  memberList'[f] = MemberRows(role', open', client', s)
    <2>1. /\ client' = [client EXCEPT ![fd] = [auth |-> TRUE, id |-> u]]
          /\ fd \in open /\ u \notin accounts
          /\ UNCHANGED <<open, role, viewing, memberList>>
        BY <1>3 DEF RegisterAccount, S!RegisterAccount, S!Identified, guildVars
    <2>2. f \in open /\ client[f].auth /\ viewing[f] = s /\ memberList'[f] = memberList[f]
        BY <2>1, <1>0, <1>z
    <2>3. client[fd].auth => role[s][client[fd].id] = "none"
      <3>1. client[fd].auth => SwitchesAccount(fd)
          BY <2>1, <1>0 DEF SwitchesAccount
      <3>2. QED
          BY <3>1 DEF Unannounced
    <2>4. ASSUME NEW v \in Users, role[s][v] # "none"
          PROVE  S!ClientIsOnline(open, client, v) <=> S!ClientIsOnline(open', client', v)
      <3>1. v # u /\ ~(client[fd].auth /\ client[fd].id = v)
          BY <2>1, <2>3, <2>4 DEF MembersExist
      <3>2. QED
          BY <2>1, <3>1 DEF S!ClientIsOnline
    <2>5. QED
        BY <2>1, <2>2, <2>4, <1>k
  <1>4. ASSUME NEW fd \in Fds, NEW u \in Users, LoginAccount(fd, u)
        PROVE  memberList'[f] = MemberRows(role', open', client', s)
    <2>1. /\ client' = [g \in Fds |-> IF g = fd THEN [auth |-> TRUE, id |-> u]
                                      ELSE IF g \in S!RevokedBy(fd, u) THEN S!Blank
                                      ELSE client[g]]
          /\ viewing' = [g \in Fds |-> IF g \in S!RevokedBy(fd, u) THEN NoServer ELSE viewing[g]]
          /\ fd \in open
          /\ open' = open /\ role' = role
        BY <1>4 DEF LoginAccount, S!LoginAccount, S!LoggedIn, guildVars
    <2>2. memberList' = NotifyMemberLists(JoinedServers(u), role', open', client', viewing')
        BY <1>4, <2>1 DEF LoginAccount, S!LoggedIn
    <2>3. CASE s \in JoinedServers(u)
        BY <2>2, <2>3, <1>n
    <2>4. CASE s \notin JoinedServers(u)
      <3>1. memberList'[f] = memberList[f]
          BY <2>1, <2>2, <2>4, <1>o
      <3>2. f \in open /\ client[f].auth /\ viewing[f] = s
          BY <2>1, <1>0, <1>z
      <3>3. role[s][u] = "none"
          BY <2>4 DEF JoinedServers
      <3>4. client[fd].auth /\ client[fd].id # u => role[s][client[fd].id] = "none"
        <4>1. client[fd].auth /\ client[fd].id # u => SwitchesAccount(fd)
            BY <2>1 DEF SwitchesAccount
        <4>2. QED
            BY <4>1 DEF Unannounced
      <3>5. ASSUME NEW v \in Users, role[s][v] # "none"
            PROVE  S!ClientIsOnline(open, client, v) <=> S!ClientIsOnline(open', client', v)
        <4>1. v # u /\ ~(client[fd].auth /\ client[fd].id = v)
            BY <3>3, <3>4, <3>5
        <4>2. \A g \in Fds \ {fd} :
                (client'[g].auth /\ client'[g].id = v) <=> (client[g].auth /\ client[g].id = v)
            BY <2>1, <4>1, <1>b DEF S!RevokedBy
        <4>3. QED
            BY <2>1, <4>1, <4>2 DEF S!ClientIsOnline
      <3>6. QED
          BY <2>1, <3>1, <3>2, <3>5, <1>k
    <2>5. QED
        BY <2>3, <2>4
  <1>5. ASSUME NEW fd \in Fds, LogoutAccount(fd)
        PROVE  memberList'[f] = MemberRows(role', open', client', s)
    <2> DEFINE SS == JoinedServers(client[fd].id)
    <2>1. /\ client[fd].auth
          /\ client' = [client EXCEPT ![fd] = S!Blank]
          /\ viewing' = [viewing EXCEPT ![fd] = NoServer]
          /\ open' = open /\ role' = role
        BY <1>5 DEF LogoutAccount, S!LogoutAccount, S!Cleared, guildVars
    <2>2. memberList' = NotifyMemberLists(SS, role', open', client', viewing')
        BY <1>5, <2>1 DEF LogoutAccount, S!Cleared
    <2>3. CASE s \in SS
        BY <2>2, <2>3, <1>n
    <2>4. CASE s \notin SS
      <3>1. memberList'[f] = memberList[f]
          BY <2>1, <2>2, <2>4, <1>o
      <3>2. f \in open /\ client[f].auth /\ viewing[f] = s
          BY <2>1, <1>z, <1>b
      <3>3. client[fd].id \in Users => role[s][client[fd].id] = "none"
          BY <2>4 DEF JoinedServers
      <3>4. ASSUME NEW v \in Users, role[s][v] # "none"
            PROVE  S!ClientIsOnline(open, client, v) <=> S!ClientIsOnline(open', client', v)
          BY <2>1, <3>3, <3>4, <1>b DEF S!ClientIsOnline
      <3>5. QED
          BY <2>1, <3>1, <3>2, <3>4, <1>k
    <2>5. QED
        BY <2>3, <2>4
  <1>6. CASE Restart
      BY <1>6 DEF Restart, S!Restart
  <1>7. ASSUME NEW fd \in Fds, NEW t \in ServerIds, ListMembers(fd, t)
        PROVE  memberList'[f] = MemberRows(role', open', client', s)
      BY <1>7 DEF ListMembers, sessionVars, guildVars, MembersFresh
  <1>8. ASSUME NEW fd \in Fds, NEW t \in ServerIds, JoinServer(fd, t)
        PROVE  memberList'[f] = MemberRows(role', open', client', s)
    <2>1. /\ role' = [role EXCEPT ![t][client[fd].id] = "member"]
          /\ UNCHANGED <<open, client, viewing>>
          /\ memberList' = NotifyMemberLists({t}, role', open', client', viewing')
        BY <1>8 DEF JoinServer, G!JoinServer, sessionVars
    <2>2. CASE s = t
        BY <2>1, <2>2, <1>n
    <2>3. CASE s # t
      <3>1. memberList'[f] = memberList[f] /\ role'[s] = role[s]
          BY <2>1, <2>3, <1>o, <1>z
      <3>2. QED
          BY <2>1, <3>1, <1>k
    <2>4. QED
        BY <2>2, <2>3
  <1>9. ASSUME NEW fd \in Fds, NEW t \in ServerIds, LeaveServer(fd, t)
        PROVE  memberList'[f] = MemberRows(role', open', client', s)
    <2>1. /\ role' = [role EXCEPT ![t][client[fd].id] = "none"]
          /\ viewing' = IF viewing[fd] = t THEN [viewing EXCEPT ![fd] = NoServer] ELSE viewing
          /\ UNCHANGED <<open, client>>
          /\ memberList' = NotifyMemberLists({t}, role', open', client', viewing')
        BY <1>9 DEF LeaveServer, G!LeaveServer, sessionVars
    <2>2. CASE s = t
        BY <2>1, <2>2, <1>n
    <2>3. CASE s # t
      <3>1. viewing[f] = s
          BY <2>1, <1>z
      <3>2. memberList'[f] = memberList[f] /\ role'[s] = role[s]
          BY <2>1, <2>3, <1>o, <1>z
      <3>3. QED
          BY <2>1, <3>1, <3>2, <1>k
    <2>4. QED
        BY <2>2, <2>3
  <1>10. ASSUME NEW fd \in Fds, NEW n \in Names, NEW t \in ServerIds, CreateServer(fd, n, t)
         PROVE  memberList'[f] = MemberRows(role', open', client', s)
    <2>1. /\ role' = [role EXCEPT ![t][client[fd].id] = "admin"] \/ role' = role
          /\ server' = [server EXCEPT ![t] = n]
          /\ G!IsNextRowid(t, G!ServerRows)
          /\ UNCHANGED <<open, client, viewing, memberList>>
        BY <1>10 DEF CreateServer, G!CreateServer, G!CreateServerHalf, G!InsertServer, sessionVars
    <2>2. server[t] = NoName /\ server'[t] # NoName
      <3>1. t \in Nat
          BY MemberListsAssumption DEF ServerIds, G!ServerIds
      <3>2. t \notin G!ServerRows
          BY <2>1, <3>1 DEF G!IsNextRowid
      <3>3. QED
          BY <2>1, <3>2, <1>z, MemberListsAssumption DEF G!ServerRows
    <2>3. s # t
        BY <2>2 DEF Unannounced
    <2>4. role'[s] = role[s]
        BY <2>1, <2>3, <1>z
    <2>5. QED
        BY <2>1, <2>4, <1>k
  <1>11. ASSUME NEW fd \in Fds, NEW t \in ServerIds, DeleteServer(fd, t)
         PROVE  memberList'[f] = MemberRows(role', open', client', s)
    <2>1. /\ role' = [role EXCEPT ![t] = [v \in Users |-> "none"]]
          /\ UNCHANGED <<open, client, viewing, memberList>>
        BY <1>11 DEF DeleteServer, G!DeleteServer, sessionVars
    <2>2. s # t
        BY <1>11 DEF Unannounced
    <2>3. QED
        BY <2>1, <2>2, <1>k
  <1>12. ASSUME NEW fd \in Fds, NEW t \in ServerIds, NEW u \in Users, KickServerMember(fd, t, u)
         PROVE  memberList'[f] = MemberRows(role', open', client', s)
    <2>1. /\ role' = [role EXCEPT ![t][u] = "none"]
          /\ UNCHANGED <<open, client, viewing, memberList>>
        BY <1>12 DEF KickServerMember, G!KickMember, sessionVars
    <2>2. s # t
        BY <1>12 DEF Unannounced
    <2>3. QED
        BY <2>1, <2>2, <1>k
  <1>13. CASE UNCHANGED memberVars
      BY <1>13, <1>k DEF memberVars
  <1>14. QED
      BY <1>1, <1>2, <1>3, <1>4, <1>5, <1>6, <1>7, <1>8, <1>9, <1>10, <1>11, <1>12, <1>13
         DEF MembersNext

(* The list on a viewer's screen goes stale only where no handler sends    *)
(* it: a kick, a delete, a re-creation, or a member's socket that logs in  *)
(* as somebody else.                                                       *)
THEOREM ViewersAreKeptFresh == MembersSpec => StaleOnlyUnannounced
  <1> DEFINE Fresh == \A s \in ServerIds : MembersFresh(s) /\ ~MembersFresh(s)' => Unannounced(s)
  <1>1. ASSUME S!TypeOK, S!TypeOK', S!SessionIdentity, G!GuildsTypeOK, ListInv, [MembersNext]_memberVars PROVE Fresh
      BY <1>1, FreshStep
  <1>2. QED
      BY <1>1, Components, ListInvariance, PTL DEF MembersSpec, StaleOnlyUnannounced, Unannounced

-----------------------------------------------------------------------------
(* Friends. *)

(* The table after each request, cell by cell.                             *)
Changes(u, v, x, y) ==
  /\ row'[u][v] = x
  /\ row'[v][u] = y
  /\ \A a, b \in Users : <<a, b>> # <<u, v>> /\ <<a, b>> # <<v, u>> => row'[a][b] = row[a][b]
  /\ row' \in [Users -> [Users -> RowStates]]

(* So the EXCEPT of a handler is read, in either order of its two cells.    *)
LEMMA TwoCells ==
  ASSUME FriendsTypeOK, NEW u \in Users, NEW v \in Users, u # v,
         NEW x \in RowStates, NEW y \in RowStates,
         \/ row' = [row EXCEPT ![u][v] = x, ![v][u] = y]
         \/ row' = [row EXCEPT ![v][u] = y, ![u][v] = x]
  PROVE  Changes(u, v, x, y)
  <1> USE DEF FriendsTypeOK
  <1>t. ASSUME NEW R \in [Users -> [Users -> RowStates]],
               NEW a \in Users, NEW b \in Users, NEW z \in RowStates
        PROVE  [R EXCEPT ![a][b] = z] \in [Users -> [Users -> RowStates]]
      OBVIOUS
  <1>1. row' \in [Users -> [Users -> RowStates]]
    <2>1. /\ [row EXCEPT ![u][v] = x] \in [Users -> [Users -> RowStates]]
          /\ [row EXCEPT ![v][u] = y] \in [Users -> [Users -> RowStates]]
        BY <1>t
    <2>2. CASE row' = [row EXCEPT ![u][v] = x, ![v][u] = y]
        BY <1>t, <2>1, <2>2
    <2>3. CASE row' = [row EXCEPT ![v][u] = y, ![u][v] = x]
        BY <1>t, <2>1, <2>3
    <2>4. QED
        BY <2>2, <2>3
  <1>2. row'[u][v] = x /\ row'[v][u] = y
      OBVIOUS
  <1>3. ASSUME NEW a \in Users, NEW b \in Users, <<a, b>> # <<u, v>>, <<a, b>> # <<v, u>>
        PROVE  row'[a][b] = row[a][b]
      BY <1>3
  <1>4. QED
      BY <1>1, <1>2, <1>3 DEF Changes

(* What the requests do to the two rows that may stand between their users. *)
LEMMA RequestChanges ==
  ASSUME FriendsTypeOK, OneRowPerPair, NEW u \in Users, NEW v \in Users
  PROVE  /\ CrossingRequest(u, v) \/ FriendAccept(u, v)
              => u # v /\ row[v][u] = "pending" /\ row[u][v] = "none"
                   /\ Changes(u, v, "none", "accepted")
         /\ FriendRequest(u, v)
              => u # v /\ row[v][u] = "none" /\ row[u][v] = "none"
                   /\ Changes(u, v, "pending", "none")
         /\ FriendRemove(u, v)
              => u # v /\ AreFriends(u, v) /\ Changes(u, v, "none", "none")
         /\ FriendReject(u, v)
              => u # v /\ row[v][u] = "pending" /\ row[u][v] = "none"
                   /\ Changes(u, v, "none", "none")
  <1> USE DEF FriendsTypeOK, OneRowPerPair, RowStates
  <1>1. CrossingRequest(u, v) \/ FriendAccept(u, v)
          => u # v /\ row[v][u] = "pending" /\ row[u][v] = "none"
               /\ Changes(u, v, "none", "accepted")
    <2> SUFFICES ASSUME CrossingRequest(u, v) \/ FriendAccept(u, v)
                 PROVE  /\ u # v /\ row[v][u] = "pending" /\ row[u][v] = "none"
                        /\ Changes(u, v, "none", "accepted")
        OBVIOUS
    <2>1. row[v][u] = "pending" /\ row' = Accepted(u, v)
        BY DEF CrossingRequest, FriendAccept
    <2>2. u # v /\ row[u][v] = "none"
        BY <2>1
    <2>3. row' = [row EXCEPT ![v][u] = "accepted", ![u][v] = "none"]
        BY <2>1, <2>2 DEF Accepted
    <2>4. Changes(u, v, "none", "accepted")
        BY <2>2, <2>3, TwoCells
    <2>5. QED
        BY <2>1, <2>2, <2>4
  <1>2. FriendRequest(u, v)
          => u # v /\ row[v][u] = "none" /\ row[u][v] = "none"
               /\ Changes(u, v, "pending", "none")
      BY DEF FriendRequest, AreFriends, Changes
  <1>3. FriendRemove(u, v) => u # v /\ AreFriends(u, v) /\ Changes(u, v, "none", "none")
    <2> SUFFICES ASSUME FriendRemove(u, v)
                 PROVE  u # v /\ AreFriends(u, v) /\ Changes(u, v, "none", "none")
        OBVIOUS
    <2>1. u # v /\ AreFriends(u, v)
        BY DEF FriendRemove, AreFriends
    <2>2. row' = [row EXCEPT ![u][v] = "none", ![v][u] = "none"]
        BY DEF FriendRemove
    <2>3. QED
        BY <2>1, <2>2, TwoCells
  <1>4. FriendReject(u, v)
          => u # v /\ row[v][u] = "pending" /\ row[u][v] = "none"
               /\ Changes(u, v, "none", "none")
      BY DEF FriendReject, Changes
  <1>5. QED
      BY <1>1, <1>2, <1>3, <1>4

-----------------------------------------------------------------------------
(* Typing and the rows of a pair. *)

(* The rows of a list are users with one of the three types. *)
LEMMA ListTyped ==
  ASSUME NEW R, NEW u \in Users
  PROVE  ListOf(R, u) \in [asked : BOOLEAN, rows : SUBSET (Users \X Types)]
  <1>1. FriendRows(R, u) \in SUBSET (Users \X Types)
      BY DEF FriendRows, Types
  <1>2. QED
      BY <1>1 DEF ListOf

(* So are the lists after a push, and nobody without a session gets one. *)
LEMMA FriendsNotified ==
  ASSUME FriendsTypeOK, NEW T, NEW R
  PROVE  /\ NotifyFriendLists(T, R) \in [Users -> [asked : BOOLEAN, rows : SUBSET (Users \X Types)]]
         /\ \A u \in Users \ session : NotifyFriendLists(T, R)[u] = NotAsked
  BY ListTyped DEF FriendsTypeOK, NotifyFriendLists

(* Every request is one of the five handlers', for the users to push to. *)
LEMMA RequestPushes ==
  ASSUME NEW u \in Users, Request(u)
  PROVE  session' = session /\ \E T, R : friendList' = NotifyFriendLists(T, R)
  BY DEF Request, CrossingRequest, FriendRequest, FriendAccept, FriendRemove, FriendReject

(* The empty table satisfies both. *)
LEMMA InitOK == FriendsInit => FriendsTypeOK /\ OneRowPerPair
  BY DEF FriendsInit, FriendsTypeOK, OneRowPerPair, RowStates, NotAsked

(* Every handler keeps the types and leaves one row between its users. *)
LEMMA StepOK == FriendsTypeOK /\ OneRowPerPair /\ [FriendsNext]_friendVars => (FriendsTypeOK /\ OneRowPerPair)'
  <1> SUFFICES ASSUME FriendsTypeOK, OneRowPerPair, [FriendsNext]_friendVars
               PROVE  (FriendsTypeOK /\ OneRowPerPair)'
      OBVIOUS
  <1>b. NotAsked \in [asked : BOOLEAN, rows : SUBSET (Users \X Types)]
      BY DEF NotAsked
  <1>1. ASSUME NEW u \in Users, Login(u) \/ EndSession(u)
        PROVE  (FriendsTypeOK /\ OneRowPerPair)'
      BY <1>1, <1>b DEF Login, EndSession, FriendsTypeOK, OneRowPerPair
  <1>2. ASSUME NEW u \in Users, ListFriends(u)
        PROVE  (FriendsTypeOK /\ OneRowPerPair)'
      BY <1>2, FriendsNotified DEF ListFriends, FriendsTypeOK, OneRowPerPair
  <1>3. ASSUME NEW u \in Users, Request(u)
        PROVE  (FriendsTypeOK /\ OneRowPerPair)'
    <2>1. PICK v \in Users : \/ CrossingRequest(u, v) \/ FriendAccept(u, v)
                             \/ FriendRequest(u, v)
                             \/ FriendRemove(u, v) \/ FriendReject(u, v)
        BY <1>3 DEF Request
    <2>2. /\ u # v
          /\ \/ Changes(u, v, "none", "accepted")
             \/ Changes(u, v, "pending", "none")
             \/ Changes(u, v, "none", "none")
        BY <2>1, RequestChanges
    <2>3. OneRowPerPair'
        BY <2>2 DEF OneRowPerPair, Changes
    <2>4. row' \in [Users -> [Users -> RowStates]]
        BY <2>2 DEF Changes
    <2>5. FriendsTypeOK'
        BY <1>3, <2>4, RequestPushes, FriendsNotified DEF FriendsTypeOK
    <2>6. QED
        BY <2>3, <2>5
  <1>4. CASE UNCHANGED friendVars
      BY <1>4 DEF friendVars, FriendsTypeOK, OneRowPerPair
  <1>5. QED
      BY <1>1, <1>2, <1>3, <1>4 DEF FriendsNext

(* The types of the friends table, the sessions and the lists. *)
THEOREM FriendsTyping == FriendsSpec => []FriendsTypeOK
  BY InitOK, StepOK, PTL DEF FriendsSpec

(* Two users never have two rows, nor a user one with themselves, whatever *)
(* requests cross.                                                         *)
THEOREM OneRow == FriendsSpec => []OneRowPerPair
  BY InitOK, StepOK, PTL DEF FriendsSpec

(* Two users become friends by the request of one that finds the pending   *)
(* request of the other: nobody is made a friend without having asked.     *)
THEOREM Consent == FriendsSpec => FriendsByConsent
  <1> DEFINE Asked == \A u, v \in Users :
        ~AreFriends(u, v) /\ AreFriends(u, v)' => row[u][v] = "pending" \/ Request(u)
  <1>1. ASSUME FriendsTypeOK, OneRowPerPair, [FriendsNext]_friendVars
        PROVE  [Asked]_friendVars
    <2> SUFFICES ASSUME NEW u \in Users, NEW v \in Users, FriendsNext,
                        ~AreFriends(u, v), AreFriends(u, v)'
                 PROVE  row[u][v] = "pending" \/ Request(u)
        BY <1>1
    <2>1. row' # row
        BY DEF AreFriends
    <2>2. PICK w \in Users : Request(w)
        BY <2>1 DEF FriendsNext, Login, EndSession, ListFriends
    <2>3. PICK x \in Users : \/ CrossingRequest(w, x) \/ FriendAccept(w, x)
                             \/ FriendRequest(w, x)
                             \/ FriendRemove(w, x) \/ FriendReject(w, x)
        BY <2>2 DEF Request
    <2>4. CASE CrossingRequest(w, x) \/ FriendAccept(w, x)
      <3>1. row[x][w] = "pending" /\ Changes(w, x, "none", "accepted")
          BY <1>1, <2>4, RequestChanges
      <3>2. (u = w /\ v = x) \/ (u = x /\ v = w)
          BY <3>1 DEF Changes, AreFriends
      <3>3. QED
          BY <2>2, <3>1, <3>2
    <2>5. CASE FriendRequest(w, x) \/ FriendRemove(w, x) \/ FriendReject(w, x)
      <3>1. Changes(w, x, "pending", "none") \/ Changes(w, x, "none", "none")
          BY <1>1, <2>5, RequestChanges
      <3>2. QED
          BY <3>1 DEF Changes, AreFriends
    <2>6. QED
        BY <2>3, <2>4, <2>5
  <1> HIDE DEF Asked
  <1>2. FriendsSpec => [][Asked]_friendVars
      BY <1>1, FriendsTyping, OneRow, PTL DEF FriendsSpec
  <1>3. QED
      BY <1>2 DEF Asked, FriendsByConsent

-----------------------------------------------------------------------------
(* The refinement. *)

(* How a sees b follows from the two rows between them. *)
LEMMA BondCells ==
  /\ bondOf = [a \in Users |-> [b \in Users |-> bondOf[a][b]]]
  /\ \A a, b \in Users :
       bondOf[a][b] = IF row[a][b] = "accepted" \/ row[b][a] = "accepted" THEN "friends"
                      ELSE IF row[b][a] = "pending" THEN "incoming"
                      ELSE IF row[a][b] = "pending" THEN "outgoing"
                      ELSE "none"
  BY DEF bondOf, AreFriends

(* A step that changes the rows of one pair sets the bond of that pair. *)
LEMMA BondSet ==
  ASSUME NEW u \in Users, NEW v \in Users, NEW x \in RowStates, NEW y \in RowStates,
         u # v, Changes(u, v, x, y)
  PROVE  bondOf' = [bondOf EXCEPT ![u][v] = bondOf'[u][v], ![v][u] = bondOf'[v][u]]
  <1> DEFINE F == [bondOf EXCEPT ![u][v] = bondOf'[u][v], ![v][u] = bondOf'[v][u]]
  <1>1. F = [a \in Users |-> [b \in Users |-> F[a][b]]]
      BY DEF bondOf
  <1>2. /\ bondOf' = [a \in Users |-> [b \in Users |-> bondOf'[a][b]]]
        /\ \A a, b \in Users :
             bondOf'[a][b] = IF row'[a][b] = "accepted" \/ row'[b][a] = "accepted" THEN "friends"
                             ELSE IF row'[b][a] = "pending" THEN "incoming"
                             ELSE IF row'[a][b] = "pending" THEN "outgoing"
                             ELSE "none"
      BY DEF bondOf, AreFriends
  <1>3. ASSUME NEW a \in Users, NEW b \in Users
        PROVE  F[a][b] = bondOf'[a][b]
    <2>1. CASE <<a, b>> = <<u, v>> \/ <<a, b>> = <<v, u>>
        BY <2>1 DEF bondOf
    <2>2. CASE <<a, b>> # <<u, v>> /\ <<a, b>> # <<v, u>>
      <3>1. row'[a][b] = row[a][b] /\ row'[b][a] = row[b][a]
          BY <2>2 DEF Changes
      <3>2. bondOf'[a][b] = bondOf[a][b]
          BY <1>2, <3>1, BondCells
      <3>3. F[a][b] = bondOf[a][b]
          BY <2>2 DEF bondOf
      <3>4. QED
          BY <3>2, <3>3
    <2>3. QED
        BY <2>1, <2>2
  <1> HIDE DEF F
  <1>4. \A a \in Users : [b \in Users |-> F[a][b]] = [b \in Users |-> bondOf'[a][b]]
      BY <1>3
  <1>5. F = bondOf'
      BY <1>1, <1>2, <1>4
  <1>6. QED
      BY <1>5 DEF F

(* Every request is the step of Friendship that its name says, and what    *)
(* only touches sessions and lists is a stutter.                           *)
LEMMA RequestImplements ==
  ASSUME FriendsTypeOK, OneRowPerPair, NEW u \in Users, Request(u)
  PROVE  Abstract!Next
  <1>r. {"none", "pending", "accepted"} \subseteq RowStates
      BY DEF RowStates
  <1>0. PICK v \in Users : \/ CrossingRequest(u, v) \/ FriendAccept(u, v)
                           \/ FriendRequest(u, v)
                           \/ FriendRemove(u, v) \/ FriendReject(u, v)
      BY DEF Request
  <1> DEFINE SetsTo(x) ==
        bondOf' = [bondOf EXCEPT ![u][v] = x, ![v][u] = Abstract!Mirror(x)]
  <1>c. \A a, b \in Users :
          bondOf'[a][b] = IF row'[a][b] = "accepted" \/ row'[b][a] = "accepted" THEN "friends"
                          ELSE IF row'[b][a] = "pending" THEN "incoming"
                          ELSE IF row'[a][b] = "pending" THEN "outgoing"
                          ELSE "none"
      BY DEF bondOf, AreFriends
  <1>m. /\ Abstract!Mirror("outgoing") = "incoming"
        /\ Abstract!Mirror("friends") = "friends"
        /\ Abstract!Mirror("none") = "none"
      BY DEF Abstract!Mirror
  <1>s. ASSUME u # v, NEW x \in RowStates, NEW y \in RowStates, Changes(u, v, x, y),
               NEW z, bondOf'[u][v] = z, bondOf'[v][u] = Abstract!Mirror(z)
        PROVE  SetsTo(z)
    <2>1. bondOf' = [bondOf EXCEPT ![u][v] = bondOf'[u][v], ![v][u] = bondOf'[v][u]]
        BY <1>s, BondSet
    <2>2. QED
        BY <2>1, <1>s
  <1> HIDE DEF SetsTo
  <1>1. ASSUME CrossingRequest(u, v) \/ FriendAccept(u, v) PROVE Abstract!Agree(u, v)
    <2>1. /\ u # v /\ row[v][u] = "pending" /\ row[u][v] = "none"
          /\ Changes(u, v, "none", "accepted")
        BY <1>1, RequestChanges
    <2>2. bondOf[u][v] = "incoming"
        BY <2>1, BondCells
    <2>3. bondOf'[u][v] = "friends" /\ bondOf'[v][u] = "friends"
        BY <2>1, <1>c DEF Changes
    <2>4. SetsTo("friends")
        BY <2>1, <2>3, <1>m, <1>r, <1>s
    <2>5. QED
        BY <2>2, <2>4 DEF Abstract!Agree, Abstract!Set, SetsTo
  <1>2. ASSUME FriendRequest(u, v) PROVE Abstract!Ask(u, v)
    <2>1. /\ u # v /\ row[v][u] = "none" /\ row[u][v] = "none"
          /\ Changes(u, v, "pending", "none")
        BY <1>2, RequestChanges
    <2>2. bondOf[u][v] = "none"
        BY <2>1, BondCells
    <2>3. bondOf'[u][v] = "outgoing" /\ bondOf'[v][u] = "incoming"
        BY <2>1, <1>c DEF Changes
    <2>4. SetsTo("outgoing")
        BY <2>1, <2>3, <1>m, <1>r, <1>s
    <2>5. QED
        BY <2>1, <2>2, <2>4 DEF Abstract!Ask, Abstract!Set, SetsTo
  <1>3. ASSUME FriendRemove(u, v) PROVE Abstract!Part(u, v)
    <2>1. u # v /\ AreFriends(u, v) /\ Changes(u, v, "none", "none")
        BY <1>3, RequestChanges
    <2>2. bondOf[u][v] = "friends"
        BY <2>1, BondCells DEF AreFriends
    <2>3. bondOf'[u][v] = "none" /\ bondOf'[v][u] = "none"
        BY <2>1, <1>c DEF Changes
    <2>4. SetsTo("none")
        BY <2>1, <2>3, <1>m, <1>r, <1>s
    <2>5. QED
        BY <2>2, <2>4 DEF Abstract!Part, Abstract!Set, SetsTo
  <1>4. ASSUME FriendReject(u, v) PROVE Abstract!Decline(u, v)
    <2>1. /\ u # v /\ row[v][u] = "pending" /\ row[u][v] = "none"
          /\ Changes(u, v, "none", "none")
        BY <1>4, RequestChanges
    <2>2. bondOf[u][v] = "incoming"
        BY <2>1, BondCells
    <2>3. bondOf'[u][v] = "none" /\ bondOf'[v][u] = "none"
        BY <2>1, <1>c DEF Changes
    <2>4. SetsTo("none")
        BY <2>1, <2>3, <1>m, <1>r, <1>s
    <2>5. QED
        BY <2>2, <2>4 DEF Abstract!Decline, Abstract!Set, SetsTo
  <1>5. QED
      BY <1>0, <1>1, <1>2, <1>3, <1>4 DEF Abstract!Next

(* The handlers implement Friendship for any users: a bond is made by two, *)
(* and both sides see every change of it in the same step.                 *)
THEOREM Refinement == FriendsSpec => ImplementsFriendship
  <1>1. FriendsInit => Abstract!Init
      BY DEF FriendsInit, Abstract!Init, bondOf, AreFriends
  <1>2. ASSUME FriendsTypeOK, OneRowPerPair, [FriendsNext]_friendVars
        PROVE  [Abstract!Next]_bondOf
    <2>1. ASSUME row' = row PROVE bondOf' = bondOf
        BY <2>1 DEF bondOf, AreFriends
    <2>2. CASE UNCHANGED friendVars
        BY <2>1, <2>2 DEF friendVars
    <2>3. ASSUME NEW u \in Users, Login(u) \/ EndSession(u) \/ ListFriends(u)
          PROVE  bondOf' = bondOf
        BY <2>1, <2>3 DEF Login, EndSession, ListFriends
    <2>4. ASSUME NEW u \in Users, Request(u) PROVE Abstract!Next
        BY <1>2, <2>4, RequestImplements
    <2>5. QED
        BY <1>2, <2>2, <2>3, <2>4 DEF FriendsNext
  <1>3. QED
      BY <1>1, <1>2, FriendsTyping, OneRow, PTL DEF FriendsSpec, ImplementsFriendship, Abstract!Spec

-----------------------------------------------------------------------------
(* The lists. *)

(* The list of a user is made of the rows they sent and got, no others.    *)
LEMMA ListReads ==
  ASSUME NEW u \in Users, \A v \in Users : row'[u][v] = row[u][v] /\ row'[v][u] = row[v][u]
  PROVE  ListOf(row', u) = ListOf(row, u)
  BY DEF ListOf, FriendRows

(* A push leaves the list of everyone it names as the table R has it, or   *)
(* they have no session and no list; the others' lists stay.               *)
LEMMA PushedOrKept ==
  ASSUME FriendsTypeOK, NEW T, NEW R, NEW u \in Users
  PROVE  /\ u \in T => \/ NotifyFriendLists(T, R)[u] = ListOf(R, u)
                       \/ NotifyFriendLists(T, R)[u] = NotAsked
         /\ u \notin T => NotifyFriendLists(T, R)[u] = friendList[u]
  BY DEF NotifyFriendLists, FriendsTypeOK

(* A request of w to v sends v the list, and touches no row of a third.    *)
LEMMA RequestKeepsFresh ==
  ASSUME FriendsTypeOK, OneRowPerPair, NEW w \in Users, Request(w),
         NEW u \in Users, u # w, ListFresh(u)
  PROVE  ListFresh(u)'
  <1>1. PICK v \in Users : \/ CrossingRequest(w, v) \/ FriendAccept(w, v)
                           \/ FriendRequest(w, v)
                           \/ FriendRemove(w, v) \/ FriendReject(w, v)
      BY DEF Request
  <1>2. \E T : /\ v \in T /\ T \subseteq {v, w}
               /\ friendList' = NotifyFriendLists(T, row')
      BY <1>1 DEF CrossingRequest, FriendAccept, FriendRequest, FriendRemove, FriendReject
  <1>3. CASE u = v
    <2>1. friendList'[u] = ListOf(row', u) \/ friendList'[u] = NotAsked
        BY <1>2, <1>3, PushedOrKept
    <2>2. QED
        BY <2>1 DEF ListFresh, NotAsked
  <1>4. CASE u # v
    <2>1. friendList'[u] = friendList[u]
        BY <1>2, <1>4, PushedOrKept
    <2>2. \/ Changes(w, v, "none", "accepted")
          \/ Changes(w, v, "pending", "none")
          \/ Changes(w, v, "none", "none")
        BY <1>1, RequestChanges
    <2>3. \A x \in Users : row'[u][x] = row[u][x] /\ row'[x][u] = row[x][u]
        BY <1>4, <2>2 DEF Changes
    <2>4. ListOf(row', u) = ListOf(row, u)
        BY <2>3, ListReads
    <2>5. QED
        BY <2>1, <2>4 DEF ListFresh
  <1>5. QED
      BY <1>3, <1>4

(* Whatever the others do, the list on a user's screen stays that of the   *)
(* table; it goes stale by their own requests only.                        *)
THEOREM OthersKeepListsFresh == FriendsSpec => StaleOnlyByOwnRequest
  <1> DEFINE Kept == \A u \in Users : ListFresh(u) /\ ~ListFresh(u)' => Request(u)
  <1>1. ASSUME FriendsTypeOK, OneRowPerPair, [FriendsNext]_friendVars
        PROVE  [Kept]_friendVars
    <2> SUFFICES ASSUME NEW u \in Users, ListFresh(u), ~Request(u), FriendsNext
                 PROVE  ListFresh(u)'
        BY <1>1
    <2>1. ASSUME NEW w \in Users, Login(w) \/ EndSession(w)
          PROVE  ListFresh(u)'
      <3>1. row' = row /\ friendList' = [friendList EXCEPT ![w] = NotAsked]
          BY <2>1 DEF Login, EndSession
      <3>2. friendList'[u] = NotAsked \/ friendList'[u] = friendList[u]
          BY <1>1, <3>1 DEF FriendsTypeOK
      <3>3. QED
          BY <3>1, <3>2 DEF ListFresh, NotAsked
    <2>2. ASSUME NEW w \in Users, ListFriends(w)
          PROVE  ListFresh(u)'
      <3>1. row' = row /\ friendList' = NotifyFriendLists({w}, row)
          BY <2>2 DEF ListFriends
      <3>2. \/ friendList'[u] = ListOf(row, u)
            \/ friendList'[u] = NotAsked
            \/ friendList'[u] = friendList[u]
          BY <1>1, <3>1, PushedOrKept
      <3>3. QED
          BY <3>1, <3>2 DEF ListFresh, NotAsked
    <2>3. ASSUME NEW w \in Users, Request(w)
          PROVE  ListFresh(u)'
        BY <1>1, <2>3, RequestKeepsFresh
    <2>4. QED
        BY <2>1, <2>2, <2>3 DEF FriendsNext
  <1> HIDE DEF Kept
  <1>2. FriendsSpec => [][Kept]_friendVars
      BY <1>1, FriendsTyping, OneRow, PTL DEF FriendsSpec
  <1>3. QED
      BY <1>2 DEF Kept, StaleOnlyByOwnRequest

-----------------------------------------------------------------------------
(* ListStream. *)

(* What the client's arrays may hold. *)
Screens == {s \in [Kinds -> Seq(Rows)] : \A k \in Kinds : Len(s[k]) <= UiCap[k]}

(* The rows of k once the frame p is read on the screen s. *)
FilledFrom(s, k, p) ==
  LET old == IF p.frame \in {"start", "single"} THEN <<>> ELSE s[k]
  IN  IF p.total > 0 /\ Len(old) < UiCap[k] THEN Append(old, p.row) ELSE old

(* The screen once the frame p is read on the screen s. *)
AfterServers(s, p) ==
  LET new == FilledFrom(s, "servers", p)
      first == new # <<>> /\ p.frame \in {"start", "single"} IN
    [s EXCEPT !["servers"]  = new,
              !["channels"] = IF first THEN <<>> ELSE @,
              !["members"]  = IF first THEN <<>> ELSE @]

AfterFriends(s, p) ==
  [s EXCEPT !["friends"] =
     IF p.frame = "start" THEN <<>>
     ELSE IF p.frame \in {"middle", "single"} /\ Len(@) < UiCap["friends"]
            THEN Append(@, p.row)
            ELSE @]

After(s, p) ==
  IF p.frame = "logout" THEN [s EXCEPT !["servers"] = <<>>, !["friends"] = <<>>]
  ELSE IF p.kind = "servers" THEN AfterServers(s, p)
  ELSE IF p.kind = "friends" THEN AfterFriends(s, p)
  ELSE IF s["servers"] = <<>> THEN s
  ELSE [s EXCEPT ![p.kind] = FilledFrom(s, p.kind, p)]

Receive ==
  ReceiveServers \/ ReceiveChannels \/ ReceiveMembers \/ ReceiveFriends \/ ReceiveLogout

-----------------------------------------------------------------------------
(* Lists and their frames. *)

(* The first rows of a list. *)
LEMMA Cuts ==
  ASSUME NEW T, NEW L \in Seq(T), NEW n \in Nat
  PROVE  /\ Cut(L, n) \in Seq(T)
         /\ Len(Cut(L, n)) = IF Len(L) < n THEN Len(L) ELSE n
         /\ \A i \in 1 .. Len(Cut(L, n)) : Cut(L, n)[i] = L[i]
  <1> DEFINE m == IF Len(L) < n THEN Len(L) ELSE n
  <1>1. m \in Nat /\ m <= Len(L) /\ \A i \in 1 .. m : L[i] \in T
      OBVIOUS
  <1>2. Cut(L, n) = SubSeq(L, 1, m)
      BY DEF Cut
  <1> HIDE DEF m
  <1>3. /\ SubSeq(L, 1, m) \in Seq(T)
        /\ Len(SubSeq(L, 1, m)) = IF 1 <= m THEN m - 1 + 1 ELSE 0
        /\ \A i \in 1 .. m - 1 + 1 : SubSeq(L, 1, m)[i] = L[1 + i - 1]
      BY <1>1, SubSeqProperties
  <1>4. Len(SubSeq(L, 1, m)) = m /\ \A i \in 1 .. m : SubSeq(L, 1, m)[i] = L[i]
      BY <1>1, <1>3
  <1>5. QED
      BY <1>2, <1>3, <1>4 DEF m

(* The rows the database returns for a list. *)
LEMMA RowsReturned ==
  ASSUME NEW n \in 0 .. MaxRows, NEW v \in Versions
  PROVE  /\ RowsOf(n, v) \in Seq(Rows)
         /\ Len(RowsOf(n, v)) = n
         /\ \A i \in 1 .. n : RowsOf(n, v)[i].at = i
  <1>1. n \in Nat /\ n <= MaxRows
      BY ListStreamAssumption
  <1>2. \A i \in 1 .. n : [version |-> v, at |-> i] \in Rows
      BY <1>1, ListStreamAssumption DEF Rows
  <1>3. RowsOf(n, v) \in [1 .. n -> Rows]
      BY <1>2 DEF RowsOf
  <1>4. RowsOf(n, v) \in Seq(Rows) /\ Len(RowsOf(n, v)) = n
      BY <1>1, <1>3
  <1>5. QED
      BY <1>4 DEF RowsOf

(* The frames of a list the database can return: as many as it has rows    *)
(* and one when it has none, all with the id that was allocated.           *)
LEMMA ListSent ==
  ASSUME NEW k \in Collected, NEW L \in Seq(Rows), Len(L) <= AccCap[k], NEW m \in 0 .. MaxRows,
         NEW id \in 1 .. HalfIds - 1
  PROVE  LET F == ListResponse(k, L, m, id) IN
         /\ F \in Seq(Packets)
         /\ Len(F) = IF Len(L) = 0 THEN 1 ELSE Len(L)
         /\ \A j \in 1 .. Len(F) :
              /\ F[j].kind = k /\ F[j].id = id
              /\ F[j].total = Len(L)
              /\ j \in 1 .. Len(L) => F[j].row = L[j]
              /\ F[j].frame = IF Len(L) = 0 THEN "single" ELSE FrameOf(j, Len(L))
  <1> DEFINE F == ListResponse(k, L, m, id)
  <1>1. /\ HalfIds \in Nat /\ id \in (-HalfIds)..(HalfIds - 1) /\ k \in Kinds /\ Blank \in Rows
        /\ 0 \in 0 .. MaxRows /\ Len(L) \in Nat
      BY ListStreamAssumption DEF Kinds, Rows
  <1>2. CASE Len(L) = 0
    <2>1. F = <<EmptyList(k, id)>>
        BY <1>2 DEF ListResponse
    <2>2. EmptyList(k, id) \in Packets
        BY <1>1 DEF EmptyList, Packets
    <2>3. Len(F) = 1 /\ F[1] = EmptyList(k, id) /\ F \in Seq(Packets)
        BY <2>1, <2>2
    <2> HIDE DEF F
    <2>4. QED
        BY <1>2, <2>3 DEF EmptyList, F
  <1>3. CASE Len(L) # 0
    <2> DEFINE P(i) == [kind |-> k, row |-> L[i], members |-> IF k = "servers" THEN m ELSE 0,
                        id |-> id, index |-> i - 1, total |-> Len(L), frame |-> FrameOf(i, Len(L))]
    <2>1. F = [i \in 1 .. Len(L) |-> P(i)]
        BY <1>3 DEF ListResponse
    <2>2. \A i \in 1 .. Len(L) : P(i) \in Packets
        BY <1>1 DEF Packets, FrameOf
    <2>3. \A i \in 1 .. Len(L) :
            /\ P(i).kind = k /\ P(i).id = id /\ P(i).total = Len(L) /\ P(i).row = L[i]
            /\ P(i).frame = FrameOf(i, Len(L))
        OBVIOUS
    <2> HIDE DEF P
    <2>4. F \in [1 .. Len(L) -> Packets] /\ \A i \in 1 .. Len(L) : F[i] = P(i)
        BY <2>1, <2>2
    <2> HIDE DEF F
    <2>5. F \in Seq(Packets) /\ Len(F) = Len(L)
        BY <1>1, <2>4
    <2>6. QED
        BY <1>3, <2>3, <2>4, <2>5 DEF F
  <1>4. QED
      BY <1>1, <1>2, <1>3

(* The frames of a friend list. *)
LEMMA FriendsSent ==
  ASSUME NEW L \in Seq(Rows), Len(L) <= MaxRows
  PROVE  LET F == BracketedResponse(L) IN
         /\ F \in Seq(Packets)
         /\ Len(F) = Len(L) + 2
         /\ \A j \in 1 .. Len(F) :
              /\ F[j].kind = "friends"
              /\ F[j].frame = IF j = 1 THEN "start" ELSE IF j = Len(L) + 2 THEN "end" ELSE "middle"
              /\ j - 1 \in 1 .. Len(L) => F[j].row = L[j - 1]
  <1> DEFINE n == Len(L)
             P(i) == [kind |-> "friends", row |-> L[i], members |-> 0, id |-> 1,
                      index |-> i - 1, total |-> -1, frame |-> "middle"]
             b == <<Bracket("start", 0)>>
             M == [i \in 1 .. n |-> P(i)]
             z == <<Bracket("end", n)>>
  <1>1. /\ HalfIds \in Nat /\ 1 \in (-HalfIds)..(HalfIds - 1) /\ "friends" \in Kinds /\ Blank \in Rows
        /\ 0 \in 0 .. MaxRows /\ n \in Nat
      BY ListStreamAssumption DEF Kinds, Rows
  <1>2. BracketedResponse(L) = b \o M \o z
      BY DEF BracketedResponse
  <1>3. \A t \in Int : \A f \in {"start", "end"} :
          /\ Bracket(f, t) \in Packets /\ Bracket(f, t).kind = "friends" /\ Bracket(f, t).frame = f
      BY <1>1 DEF Bracket, Packets
  <1>4. \A i \in 1 .. n :
          P(i) \in Packets /\ P(i).kind = "friends" /\ P(i).frame = "middle" /\ P(i).row = L[i]
      BY <1>1 DEF Packets
  <1> HIDE DEF P, n
  <1>5. M \in Seq(Packets) /\ Len(M) = n /\ \A i \in 1 .. n : M[i] = P(i)
      BY <1>1, <1>4
  <1>6. /\ b \in Seq(Packets) /\ Len(b) = 1 /\ b[1] = Bracket("start", 0)
        /\ z \in Seq(Packets) /\ Len(z) = 1 /\ z[1] = Bracket("end", n)
      BY <1>1, <1>3
  <1> HIDE DEF b, M, z
  <1>7. /\ b \o M \in Seq(Packets) /\ Len(b \o M) = n + 1
        /\ \A i \in 1 .. n + 1 : (b \o M)[i] = IF i = 1 THEN Bracket("start", 0) ELSE P(i - 1)
    <2>1. /\ b \o M \in Seq(Packets) /\ Len(b \o M) = Len(b) + Len(M)
          /\ \A i \in 1 .. Len(b) + Len(M) : (b \o M)[i] = IF i <= Len(b) THEN b[i] ELSE M[i - Len(b)]
        BY <1>5, <1>6, ConcatProperties
    <2>2. /\ Len(b) + Len(M) = n + 1
          /\ \A i \in 1 .. n + 1 : (i <= Len(b) <=> i = 1) /\ (i # 1 => i - Len(b) = i - 1 /\ i - 1 \in 1 .. n)
        BY <1>1, <1>5, <1>6
    <2>3. ASSUME NEW i \in 1 .. n + 1
          PROVE  (b \o M)[i] = IF i = 1 THEN Bracket("start", 0) ELSE P(i - 1)
      <3>1. CASE i = 1
          BY <1>6, <2>1, <2>2, <3>1
      <3>2. CASE i # 1
          BY <1>5, <2>1, <2>2, <3>2
      <3>3. QED
          BY <3>1, <3>2
    <2>4. QED
        BY <2>1, <2>2, <2>3
  <1> DEFINE B == b \o M
  <1>8. /\ B \o z \in Seq(Packets) /\ Len(B \o z) = n + 2
        /\ \A i \in 1 .. n + 2 :
             (B \o z)[i] =
               IF i = 1 THEN Bracket("start", 0) ELSE IF i = n + 2 THEN Bracket("end", n) ELSE P(i - 1)
    <2>1. /\ B \in Seq(Packets) /\ Len(B) = n + 1
          /\ \A i \in 1 .. n + 1 : B[i] = IF i = 1 THEN Bracket("start", 0) ELSE P(i - 1)
        BY <1>7
    <2> HIDE DEF B
    <2>2. /\ B \o z \in Seq(Packets) /\ Len(B \o z) = Len(B) + Len(z)
          /\ \A i \in 1 .. Len(B) + Len(z) : (B \o z)[i] = IF i <= Len(B) THEN B[i] ELSE z[i - Len(B)]
        BY <1>6, <2>1, ConcatProperties
    <2>3. /\ Len(B) + Len(z) = n + 2 /\ n + 2 - Len(B) = 1 /\ n + 2 # 1
          /\ \A i \in 1 .. n + 2 : (i <= Len(B) <=> i # n + 2) /\ (i # n + 2 => i \in 1 .. n + 1)
          /\ n + 2 \in 1 .. n + 2
        BY <1>1, <1>6, <2>1
    <2>4. ASSUME NEW i \in 1 .. n + 2
          PROVE  (B \o z)[i] =
                   IF i = 1 THEN Bracket("start", 0) ELSE IF i = n + 2 THEN Bracket("end", n) ELSE P(i - 1)
      <3>1. CASE i = n + 2
        <4>1. (B \o z)[i] = z[1]
            BY <2>2, <2>3, <3>1
        <4>2. QED
            BY <1>6, <2>3, <3>1, <4>1
      <3>2. CASE i # n + 2
        <4>1. (B \o z)[i] = B[i]
            BY <2>2, <2>3, <3>2
        <4>2. QED
            BY <2>1, <2>3, <3>2, <4>1
      <3>3. QED
          BY <3>1, <3>2
    <2>5. QED
        BY <2>2, <2>3, <2>4
  <1> DEFINE F == BracketedResponse(L)
  <1>9. /\ F \in Seq(Packets) /\ Len(F) = n + 2
        /\ \A i \in 1 .. n + 2 :
             F[i] = IF i = 1 THEN Bracket("start", 0) ELSE IF i = n + 2 THEN Bracket("end", n) ELSE P(i - 1)
      BY <1>2, <1>8
  <1> HIDE DEF F
  <1>10. ASSUME NEW j \in 1 .. n + 2
         PROVE  /\ F[j].kind = "friends"
                /\ F[j].frame = IF j = 1 THEN "start" ELSE IF j = n + 2 THEN "end" ELSE "middle"
                /\ j - 1 \in 1 .. n => F[j].row = L[j - 1]
    <2>1. CASE j = 1
        BY <1>1, <1>3, <1>9, <2>1
    <2>2. CASE j = n + 2
        BY <1>1, <1>3, <1>9, <2>2
    <2>3. CASE j \in 2 .. n + 1
      <3>1. j - 1 \in 1 .. n /\ j # 1 /\ j # n + 2
          BY <1>1, <2>3
      <3>2. F[j] = P(j - 1)
          BY <1>9, <3>1
      <3>3. QED
          BY <1>4, <3>1, <3>2
    <2>4. QED
        BY <1>1, <2>1, <2>2, <2>3
  <1>11. QED
      BY <1>9, <1>10 DEF F, n

-----------------------------------------------------------------------------
(* The client's screen. *)

(* Filling an array keeps it within its size.                              *)
LEMMA FillTyped ==
  ASSUME NEW s \in Screens, NEW k \in Kinds, NEW p \in Packets
  PROVE  /\ FilledFrom(s, k, p) \in Seq(Rows)
         /\ Len(FilledFrom(s, k, p)) <= UiCap[k]
  <1>1. s[k] \in Seq(Rows) /\ Len(s[k]) <= UiCap[k] /\ UiCap[k] \in Nat \ {0} /\ p.row \in Rows
      BY ListStreamAssumption DEF Screens, Packets
  <1> DEFINE old == IF p.frame \in {"start", "single"} THEN <<>> ELSE s[k]
  <1>2. old \in Seq(Rows) /\ Len(old) <= UiCap[k] /\ Len(old) \in Nat
      BY <1>1
  <1>3. FilledFrom(s, k, p) =
          IF p.total > 0 /\ Len(old) < UiCap[k] THEN Append(old, p.row) ELSE old
      BY DEF FilledFrom
  <1> HIDE DEF old
  <1>4. Append(old, p.row) \in Seq(Rows) /\ Len(Append(old, p.row)) = Len(old) + 1
      BY <1>1, <1>2
  <1>5. QED
      BY <1>1, <1>2, <1>3, <1>4

(* A frame turns a screen into a screen.                                   *)
LEMMA AfterTyped ==
  ASSUME NEW s \in Screens, NEW p \in Packets
  PROVE  After(s, p) \in Screens
  <1>1. /\ s \in [Kinds -> Seq(Rows)] /\ \A k \in Kinds : Len(s[k]) <= UiCap[k]
        /\ \A k \in Kinds : UiCap[k] \in Nat
      BY ListStreamAssumption DEF Screens
  <1>2. \A k \in Kinds : FilledFrom(s, k, p) \in Seq(Rows) /\ Len(FilledFrom(s, k, p)) <= UiCap[k]
      BY FillTyped
  <1> DEFINE none == <<>>
  <1>3. none \in Seq(Rows) /\ Len(none) = 0
      OBVIOUS
  <1>4. p.kind \in Kinds /\ p.row \in Rows
      BY DEF Packets
  <1>5. CASE p.frame = "logout"
    <2>1. After(s, p) = [s EXCEPT !["servers"] = none, !["friends"] = none]
        BY <1>5 DEF After
    <2> HIDE DEF none
    <2>2. \A k \in Kinds : Len(none) <= UiCap[k]
        BY <1>1, <1>3, ListStreamAssumption
    <2>3. \A k \in Kinds : After(s, p)[k] = IF k \in {"servers", "friends"} THEN none ELSE s[k]
        BY <1>1, <2>1
    <2>4. After(s, p) \in [Kinds -> Seq(Rows)]
        BY <1>1, <1>3, <2>1
    <2>5. QED
        BY <1>1, <2>2, <2>3, <2>4 DEF Screens
  <1>6. CASE p.frame # "logout" /\ p.kind = "servers"
    <2> DEFINE new == FilledFrom(s, "servers", p)
               first == new # <<>> /\ p.frame \in {"start", "single"}
               c == IF first THEN none ELSE s["channels"]
               m == IF first THEN none ELSE s["members"]
    <2>1. After(s, p) = [s EXCEPT !["servers"] = new, !["channels"] = c, !["members"] = m]
        BY <1>1, <1>6 DEF After, AfterServers, Kinds, Collected
    <2>2. {"servers", "channels", "members"} \subseteq Kinds
        BY DEF Kinds, Collected
    <2> HIDE DEF none
    <2>3. /\ new \in Seq(Rows) /\ Len(new) <= UiCap["servers"]
          /\ c \in Seq(Rows) /\ Len(c) <= UiCap["channels"]
          /\ m \in Seq(Rows) /\ Len(m) <= UiCap["members"]
        BY <1>1, <1>2, <1>3, <2>2
    <2> HIDE DEF new, first, c, m
    <2>4. QED
        BY <1>1, <2>1, <2>3 DEF Screens
  <1>7. CASE p.frame # "logout" /\ p.kind = "friends"
    <2> DEFINE f == IF p.frame = "start" THEN none
                    ELSE IF p.frame \in {"middle", "single"} /\ Len(s["friends"]) < UiCap["friends"]
                      THEN Append(s["friends"], p.row) ELSE s["friends"]
    <2>1. After(s, p) = [s EXCEPT !["friends"] = f]
        BY <1>1, <1>7 DEF After, AfterFriends
    <2> HIDE DEF none
    <2>2. s["friends"] \in Seq(Rows) /\ Len(s["friends"]) <= UiCap["friends"] /\ UiCap["friends"] \in Nat
        BY <1>1 DEF Kinds
    <2>3. f \in Seq(Rows) /\ Len(f) <= UiCap["friends"]
        BY <1>3, <1>4, <2>2
    <2> HIDE DEF f
    <2>4. QED
        BY <1>1, <2>1, <2>3 DEF Screens
  <1>8. CASE p.frame # "logout" /\ p.kind \in {"channels", "members"}
    <2>1. After(s, p) \in {s, [s EXCEPT ![p.kind] = FilledFrom(s, p.kind, p)]}
        BY <1>8 DEF After
    <2>2. QED
        BY <1>1, <1>2, <1>4, <2>1 DEF Screens
  <1>9. QED
      BY <1>4, <1>5, <1>6, <1>7, <1>8 DEF Kinds, Collected

(* Whatever frame the client reads, it does so to the first, and reading   *)
(* changes nothing of the server's.                                        *)
LEMMA Received ==
  ASSUME TypeOK, Receive
  PROVE  /\ down # <<>> /\ down' = Tail(down)
         /\ shown' = After(shown, Head(down))
         /\ memberCount' \in Nat
         /\ UNCHANGED <<signed, late, nextListId, scanned, due>>
  <1> DEFINE p == Head(down)
  <1>1. shown \in Screens /\ memberCount \in Nat
      BY DEF TypeOK, Screens
  <1>2. down # <<>> /\ down \in Seq(Packets)
      BY DEF TypeOK, Receive, ReceiveServers, ReceiveChannels, ReceiveMembers, ReceiveFriends,
             ReceiveLogout, Gets
  <1>3. p \in Packets
      BY <1>2
  <1>4. \A k \in Kinds : FilledFrom(shown, k, p) = Filled(k, p)
      BY DEF FilledFrom, Filled
  <1>5. CASE ReceiveServers
    <2>1. /\ p.kind = "servers" /\ p.frame # "logout" /\ down' = Tail(down)
          /\ UNCHANGED <<signed, late, nextListId, scanned, due>>
        BY <1>5 DEF ReceiveServers, Gets
    <2>2. shown' = After(shown, p)
      <3>1. Filled("servers", p) = FilledFrom(shown, "servers", p)
          BY <1>4 DEF Kinds, Collected
      <3> DEFINE new == Filled("servers", p)
                 first == new # <<>> /\ p.frame \in {"start", "single"}
      <3>2. shown' = [shown EXCEPT !["servers"]  = new,
                                   !["channels"] = IF first THEN <<>> ELSE @,
                                   !["members"]  = IF first THEN <<>> ELSE @]
          BY <1>5 DEF ReceiveServers
      <3>3. After(shown, p) = AfterServers(shown, p)
          BY <2>1 DEF After
      <3>4. QED
          BY <3>1, <3>2, <3>3 DEF AfterServers
    <2>3. memberCount' \in Nat
      <3>1. p.members \in Nat
          BY <1>3, ListStreamAssumption DEF Packets
      <3>2. memberCount' = p.members \/ memberCount' = memberCount
          BY <1>5 DEF ReceiveServers
      <3>3. QED
          BY <1>1, <3>1, <3>2
    <2>4. QED
        BY <1>2, <2>1, <2>2, <2>3
  <1>6. CASE ReceiveChannels
    <2>1. /\ p.kind = "channels" /\ p.frame # "logout" /\ down' = Tail(down)
          /\ shown' = IF shown["servers"] = <<>> THEN shown
                      ELSE [shown EXCEPT !["channels"] = Filled("channels", p)]
          /\ UNCHANGED <<signed, late, nextListId, memberCount, scanned, due>>
        BY <1>6 DEF ReceiveChannels, Gets
    <2>2. Filled("channels", p) = FilledFrom(shown, "channels", p)
        BY <1>4 DEF Kinds, Collected
    <2>3. QED
        BY <1>1, <1>2, <2>1, <2>2 DEF After
  <1>7. CASE ReceiveMembers
    <2>1. /\ p.kind = "members" /\ p.frame # "logout" /\ down' = Tail(down)
          /\ shown' = IF shown["servers"] = <<>> THEN shown
                      ELSE [shown EXCEPT !["members"] = Filled("members", p)]
          /\ memberCount' = IF shown["servers"] = <<>> THEN memberCount ELSE Len(Filled("members", p))
          /\ UNCHANGED <<signed, late, nextListId, scanned, due>>
        BY <1>7 DEF ReceiveMembers, Gets
    <2>2. /\ Filled("members", p) = FilledFrom(shown, "members", p)
          /\ FilledFrom(shown, "members", p) \in Seq(Rows)
        BY <1>1, <1>3, <1>4, FillTyped DEF Kinds, Collected
    <2>3. Len(Filled("members", p)) \in Nat
        BY <2>2
    <2>4. QED
        BY <1>1, <1>2, <2>1, <2>2, <2>3 DEF After
  <1>8. CASE ReceiveFriends
    <2>1. /\ p.kind = "friends" /\ p.frame # "logout" /\ down' = Tail(down)
          /\ UNCHANGED <<signed, late, nextListId, memberCount, scanned, due>>
        BY <1>8 DEF ReceiveFriends, Gets
    <2>2. shown' = AfterFriends(shown, p)
        BY <1>8 DEF ReceiveFriends, AfterFriends
    <2>3. QED
        BY <1>1, <1>2, <2>1, <2>2 DEF After
  <1>9. CASE ReceiveLogout
    <2>1. /\ p.frame = "logout" /\ down' = Tail(down)
          /\ shown' = [shown EXCEPT !["servers"] = <<>>, !["friends"] = <<>>]
          /\ UNCHANGED <<signed, late, nextListId, memberCount, scanned, due>>
        BY <1>9 DEF ReceiveLogout
    <2>2. QED
        BY <1>1, <1>2, <2>1 DEF After
  <1>10. QED
      BY <1>5, <1>6, <1>7, <1>8, <1>9 DEF Receive

-----------------------------------------------------------------------------
(* The steps of the server. *)

(* The id of the next list is positive, and the counter stays in range.    *)
LEMMA Allocated ==
  ASSUME TypeOK
  PROVE  /\ AllocateListId \in 1 .. HalfIds - 1
         /\ Wrap(AllocateListId + 1) \in (-HalfIds)..(HalfIds - 1)
  <1>1. nextListId \in (-HalfIds)..(HalfIds - 1) /\ HalfIds \in Nat \ {0, 1, 2}
      BY ListStreamAssumption DEF TypeOK
  <1>2. AllocateListId \in 1 .. HalfIds - 1
      BY <1>1 DEF AllocateListId
  <1>3. QED
      BY <1>1, <1>2 DEF Wrap

(* What is due is a list of rows for every array.                          *)
LEMMA DueTyped ==
  ASSUME TypeOK, NEW k \in Kinds, NEW L \in Seq(Rows)
  PROVE  Due(k, L) \in [Kinds -> Seq(Rows)]
  <1> DEFINE new == Cut(L, UiCap[k])
             none == <<>>
  <1>1. due \in [Kinds -> Seq(Rows)]
      BY DEF TypeOK
  <1>2. new \in Seq(Rows) /\ none \in Seq(Rows)
      BY Cuts, ListStreamAssumption
  <1>3. Due(k, L) \in {[due EXCEPT !["servers"] = new],
                       [due EXCEPT !["servers"] = new, !["channels"] = none, !["members"] = none],
                       due, [due EXCEPT ![k] = new]}
    <2>1. CASE k = "servers"
      <3>1. CASE L = <<>>
        <4>1. Due(k, L) = [due EXCEPT !["servers"] = new,
                             !["channels"] = due["channels"], !["members"] = due["members"]]
            BY <1>1, <2>1, <3>1 DEF Due, Kinds, Collected
        <4> HIDE DEF new, none
        <4>2. Due(k, L) = [due EXCEPT !["servers"] = new]
            BY <1>1, <4>1
        <4>3. QED
            BY <4>2
      <3>2. CASE L # <<>>
        <4>1. Due(k, L) = [due EXCEPT !["servers"] = new, !["channels"] = none, !["members"] = none]
            BY <2>1, <3>2 DEF Due
        <4> HIDE DEF new, none
        <4>2. QED
            BY <4>1
      <3>3. QED
          BY <3>1, <3>2
    <2>2. CASE k \in {"channels", "members"}
      <3>1. Due(k, L) = [due EXCEPT ![k] = due[k]] \/ Due(k, L) = [due EXCEPT ![k] = new]
          BY <2>2 DEF Due
      <3> HIDE DEF new, none
      <3>2. [due EXCEPT ![k] = due[k]] = due
          BY <1>1
      <3>3. QED
          BY <3>1, <3>2
    <2>3. CASE k = "friends"
      <3>1. Due(k, L) = [due EXCEPT ![k] = new]
          BY <2>3 DEF Due
      <3>2. QED
          BY <3>1
    <2>4. QED
        BY <2>1, <2>2, <2>3 DEF Kinds, Collected
  <1> HIDE DEF new, none
  <1>4. QED
      BY <1>1, <1>2, <1>3

(* The list that goes out, and when it does.                               *)
LEMMA ListGoesOut ==
  ASSUME TypeOK, NEW k \in Collected, StreamCollected(k)
  PROVE  \E L \in Seq(Rows), m \in 0 .. MaxRows :
           /\ Len(L) <= AccCap[k]
           /\ \A i \in 1 .. Len(L) : L[i].at = i
           /\ down' = down \o ListResponse(k, L, m, AllocateListId)
           /\ due' = Due(k, L)
           /\ signed
           /\ nextListId' = Wrap(AllocateListId + 1)
           /\ UNCHANGED <<signed, late, shown, memberCount, scanned>>
  <1>1. PICK n \in 0 .. MaxRows, v \in Versions, m \in 0 .. MaxRows :
          /\ down' = down \o ListResponse(k, Accumulated(k, RowsOf(n, v)), m, AllocateListId)
          /\ due' = Due(k, Cut(RowsOf(n, v), AccCap[k]))
      BY DEF StreamCollected
  <1> DEFINE L == Cut(RowsOf(n, v), AccCap[k])
  <1>2. /\ RowsOf(n, v) \in Seq(Rows) /\ Len(RowsOf(n, v)) = n
        /\ \A i \in 1 .. n : RowsOf(n, v)[i].at = i
      BY RowsReturned
  <1>3. n \in Nat /\ AccCap[k] \in Nat
      BY ListStreamAssumption
  <1>4. /\ L \in Seq(Rows) /\ Len(L) = IF n < AccCap[k] THEN n ELSE AccCap[k]
        /\ \A i \in 1 .. Len(L) : L[i] = RowsOf(n, v)[i]
      BY <1>2, <1>3, Cuts
  <1>5. Accumulated(k, RowsOf(n, v)) = L
      BY DEF Accumulated
  <1> HIDE DEF L
  <1>6. Len(L) <= AccCap[k] /\ \A i \in 1 .. Len(L) : i \in 1 .. n
      BY <1>3, <1>4
  <1>7. \A i \in 1 .. Len(L) : L[i].at = i
      BY <1>2, <1>4, <1>6
  <1>8. down' = down \o ListResponse(k, L, m, AllocateListId) /\ due' = Due(k, L)
      BY <1>1, <1>5 DEF L
  <1>9. /\ signed /\ nextListId' = Wrap(AllocateListId + 1)
        /\ UNCHANGED <<signed, late, shown, memberCount, scanned>>
      BY DEF StreamCollected
  <1>10. QED
      BY <1>4, <1>6, <1>7, <1>8, <1>9

LEMMA FriendsGoOut ==
  ASSUME TypeOK, StreamFriends
  PROVE  \E L \in Seq(Rows) :
           /\ Len(L) <= MaxRows
           /\ \A i \in 1 .. Len(L) : L[i].at = i
           /\ down' = down \o BracketedResponse(L)
           /\ due' = Due("friends", L)
           /\ signed
           /\ UNCHANGED <<signed, late, nextListId, shown, memberCount, scanned>>
  <1>1. PICK n \in 0 .. MaxRows, v \in Versions :
          /\ down' = down \o BracketedResponse(RowsOf(n, v))
          /\ due' = Due("friends", RowsOf(n, v))
      BY DEF StreamFriends
  <1>2. /\ RowsOf(n, v) \in Seq(Rows) /\ Len(RowsOf(n, v)) = n /\ n <= MaxRows
        /\ \A i \in 1 .. n : RowsOf(n, v)[i].at = i
      BY RowsReturned, ListStreamAssumption
  <1>3. signed /\ UNCHANGED <<signed, late, nextListId, shown, memberCount, scanned>>
      BY DEF StreamFriends
  <1>4. QED
      BY <1>1, <1>2, <1>3

(* The single frames: the notice of the end of a session, and an error.    *)
EndNotice == [Bracket("logout", 0) EXCEPT !.id = 0]

LEMMA SingleFrames ==
  /\ EndNotice \in Packets /\ EndNotice.frame = "logout" /\ ~InStream(EndNotice)
  /\ EndNotice.kind = "friends"
  /\ \A k \in Kinds :
       /\ ErrorFrame(k) \in Packets /\ ErrorFrame(k).frame = "single" /\ ErrorFrame(k).kind = k
       /\ ErrorFrame(k).total = 0 /\ ~InStream(ErrorFrame(k))
  <1>1. /\ 0 \in (-HalfIds)..(HalfIds - 1) /\ Blank \in Rows /\ 0 \in 0 .. MaxRows
        /\ "friends" \in Kinds
      BY ListStreamAssumption DEF Rows, Kinds
  <1>2. EndNotice = [kind |-> "friends", row |-> Blank, members |-> 0, id |-> 0, index |-> 0,
                     total |-> 0, frame |-> "logout"]
      BY DEF EndNotice, Bracket
  <1>3. \A k \in Kinds :
          ErrorFrame(k) = [kind |-> k, row |-> Blank, members |-> 0, id |-> 0, index |-> 0,
                        total |-> 0, frame |-> "single"]
    <2> TAKE k \in Kinds
    <2> DEFINE b == Bracket("single", 0)
               c == [b EXCEPT !.kind = k]
    <2>1. b = [kind |-> "friends", row |-> Blank, members |-> 0, id |-> 1, index |-> 0,
               total |-> 0, frame |-> "single"]
        BY DEF Bracket
    <2>2. c = [kind |-> k, row |-> Blank, members |-> 0, id |-> 1, index |-> 0,
               total |-> 0, frame |-> "single"]
        BY <2>1
    <2>3. ErrorFrame(k) = [c EXCEPT !.id = 0]
        BY <2>1 DEF ErrorFrame
    <2> HIDE DEF c
    <2>4. QED
        BY <2>2, <2>3
  <1>4. QED
      BY <1>1, <1>2, <1>3 DEF Packets, InStream

-----------------------------------------------------------------------------
(* Types. *)

(* The frames that are added have types, and so do all that are under way. *)
LEMMA FramesTyped ==
  ASSUME TypeOK, NEW e \in Seq(Packets),
         \A i \in 1 .. Len(e) : e[i].kind \in Collected => e[i].total <= AccCap[e[i].kind]
  PROVE  /\ down \o e \in Seq(Packets)
         /\ \A i \in 1 .. Len(down \o e) :
              (down \o e)[i].kind \in Collected => (down \o e)[i].total <= AccCap[(down \o e)[i].kind]
  <1>1. /\ down \in Seq(Packets)
        /\ \A i \in 1 .. Len(down) : down[i].kind \in Collected => down[i].total <= AccCap[down[i].kind]
      BY DEF TypeOK
  <1>2. /\ down \o e \in Seq(Packets) /\ Len(down \o e) = Len(down) + Len(e)
        /\ \A i \in 1 .. Len(down) + Len(e) :
             (down \o e)[i] = IF i <= Len(down) THEN down[i] ELSE e[i - Len(down)]
      BY <1>1, ConcatProperties
  <1>3. ASSUME NEW i \in 1 .. Len(down \o e)
        PROVE  (down \o e)[i].kind \in Collected => (down \o e)[i].total <= AccCap[(down \o e)[i].kind]
    <2>1. Len(down) \in Nat /\ Len(e) \in Nat
        BY <1>1
    <2>2. CASE i <= Len(down)
      <3>1. i \in 1 .. Len(down) /\ (down \o e)[i] = down[i]
          BY <1>2, <2>1, <2>2
      <3>2. QED
          BY <1>1, <3>1
    <2>3. CASE ~(i <= Len(down))
      <3>1. i - Len(down) \in 1 .. Len(e) /\ (down \o e)[i] = e[i - Len(down)]
          BY <1>2, <2>1, <2>3
      <3>2. QED
          BY <3>1
    <2>4. QED
        BY <2>2, <2>3
  <1>4. QED
      BY <1>2, <1>3

LEMMA TypesKept ==
  ASSUME TypeOK, [Next]_vars
  PROVE  TypeOK'
  <1>1. CASE \E k \in Collected : StreamCollected(k)
    <2>1. PICK k \in Collected : StreamCollected(k)
        BY <1>1
    <2>2. PICK L \in Seq(Rows), m \in 0 .. MaxRows :
            /\ Len(L) <= AccCap[k]
            /\ down' = down \o ListResponse(k, L, m, AllocateListId)
            /\ due' = Due(k, L)
            /\ nextListId' = Wrap(AllocateListId + 1)
            /\ UNCHANGED <<signed, late, shown, memberCount, scanned>>
        BY <2>1, ListGoesOut
    <2> DEFINE F == ListResponse(k, L, m, AllocateListId)
    <2>3. F \in Seq(Packets) /\ \A j \in 1 .. Len(F) : F[j].kind = k /\ F[j].total = Len(L)
        BY <2>2, ListSent, Allocated
    <2> HIDE DEF F
    <2>4. /\ down \o F \in Seq(Packets)
          /\ \A i \in 1 .. Len(down \o F) :
               (down \o F)[i].kind \in Collected => (down \o F)[i].total <= AccCap[(down \o F)[i].kind]
        BY <2>2, <2>3, FramesTyped
    <2>5. due' \in [Kinds -> Seq(Rows)] /\ nextListId' \in (-HalfIds)..(HalfIds - 1)
        BY <2>2, DueTyped, Allocated DEF Kinds
    <2>6. down' = down \o F
        BY <2>2 DEF F
    <2>7. QED
        BY <2>2, <2>4, <2>5, <2>6 DEF TypeOK
  <1>2. CASE StreamFriends
    <2>1. PICK L \in Seq(Rows) :
            /\ Len(L) <= MaxRows
            /\ down' = down \o BracketedResponse(L)
            /\ due' = Due("friends", L)
            /\ UNCHANGED <<signed, late, nextListId, shown, memberCount, scanned>>
        BY <1>2, FriendsGoOut
    <2> DEFINE F == BracketedResponse(L)
    <2>2. F \in Seq(Packets) /\ \A j \in 1 .. Len(F) : F[j].kind \notin Collected
        BY <2>1, FriendsSent DEF Collected
    <2>3. down' = down \o F
        BY <2>1
    <2> HIDE DEF F
    <2>4. /\ down \o F \in Seq(Packets)
          /\ \A i \in 1 .. Len(down \o F) :
               (down \o F)[i].kind \in Collected => (down \o F)[i].total <= AccCap[(down \o F)[i].kind]
        BY <2>2, FramesTyped
    <2>5. due' \in [Kinds -> Seq(Rows)]
        BY <2>1, DueTyped DEF Kinds
    <2>6. QED
        BY <2>1, <2>3, <2>4, <2>5 DEF TypeOK
  <1>3. ASSUME NEW p \in Packets, p.kind \in Collected => p.total = 0
        PROVE  /\ Append(down, p) = down \o <<p>>
               /\ Append(down, p) \in Seq(Packets)
               /\ \A i \in 1 .. Len(Append(down, p)) :
                    Append(down, p)[i].kind \in Collected =>
                      Append(down, p)[i].total <= AccCap[Append(down, p)[i].kind]
    <2>1. down \in Seq(Packets) /\ Append(down, p) = down \o <<p>>
        BY DEF TypeOK
    <2> DEFINE e == <<p>>
    <2>2. e \in Seq(Packets) /\ Len(e) = 1 /\ e[1] = p
        OBVIOUS
    <2>3. \A i \in 1 .. Len(e) : e[i].kind \in Collected => e[i].total <= AccCap[e[i].kind]
        BY <1>3, <2>2, ListStreamAssumption
    <2>4. Append(down, p) = down \o e
        BY <2>1
    <2> HIDE DEF e
    <2>5. QED
        BY <2>1, <2>2, <2>3, <2>4, FramesTyped
  <1>4. CASE SignOut
    <2>1. down' = Append(down, EndNotice) /\ signed' \in BOOLEAN /\ late' \in 0 .. MaxLate
          /\ UNCHANGED <<nextListId, shown, memberCount, scanned, due>>
        BY <1>4 DEF SignOut, EndNotice
    <2>2. QED
        BY <1>3, <2>1, SingleFrames DEF TypeOK, Collected
  <1>5. CASE \E k \in Kinds : Refuse(k)
    <2>1. PICK k \in Kinds : Refuse(k)
        BY <1>5
    <2>2. down' = Append(down, ErrorFrame(k)) /\ late' = late - 1 /\ late > 0
          /\ UNCHANGED <<signed, nextListId, shown, memberCount, scanned, due>>
        BY <2>1 DEF Refuse
    <2>3. late' \in 0 .. MaxLate
        BY <2>2, ListStreamAssumption DEF TypeOK
    <2>4. QED
        BY <1>3, <2>2, <2>3, SingleFrames DEF TypeOK
  <1>5a. CASE \E k \in Collected : FailedQuery(k)
    <2> DEFINE none == <<>>
    <2>1. PICK k \in Collected : FailedQuery(k)
        BY <1>5a
    <2>2. down' = Append(down, ErrorFrame(k)) /\ due' = Due(k, none)
          /\ UNCHANGED <<signed, late, nextListId, shown, memberCount, scanned>>
        BY <2>1 DEF FailedQuery
    <2>3. none \in Seq(Rows) /\ k \in Kinds
        BY DEF Kinds
    <2> HIDE DEF none
    <2>4. due' \in [Kinds -> Seq(Rows)]
        BY <2>2, <2>3, DueTyped
    <2>5. QED
        BY <1>3, <2>2, <2>3, <2>4, SingleFrames DEF TypeOK
  <1>6. CASE SignIn
    <2>1. Unsent \in Seq(Rows)
        BY DEF Unsent, Rows
    <2> HIDE DEF Unsent
    <2>2. QED
        BY <1>6, <2>1 DEF SignIn, TypeOK
  <1>7. CASE Receive
    <2>1. /\ down # <<>> /\ down' = Tail(down) /\ shown' = After(shown, Head(down))
          /\ memberCount' \in Nat /\ UNCHANGED <<signed, late, nextListId, scanned, due>>
        BY <1>7, Received
    <2>2. down \in Seq(Packets) /\ shown \in Screens
        BY DEF TypeOK, Screens
    <2>3. shown' \in Screens
        BY <2>1, <2>2, AfterTyped
    <2>4. /\ down' \in Seq(Packets) /\ Len(down') = Len(down) - 1
          /\ \A i \in 1 .. Len(down') : down'[i] = down[i + 1] /\ i + 1 \in 1 .. Len(down)
        BY <2>1, <2>2
    <2>5. \A i \in 1 .. Len(down') : down'[i].kind \in Collected => down'[i].total <= AccCap[down'[i].kind]
        BY <2>4 DEF TypeOK
    <2>6. QED
        BY <2>1, <2>3, <2>4, <2>5 DEF TypeOK, Screens
  <1>8. CASE Kick
    <2>1. scanned' \in Nat /\ UNCHANGED <<signed, late, nextListId, down, shown, memberCount, due>>
        BY <1>8 DEF Kick, TypeOK
    <2>2. QED
        BY <2>1 DEF TypeOK
  <1>9. CASE UNCHANGED vars
      BY <1>9 DEF vars, TypeOK
  <1>10. QED
      BY <1>1, <1>2, <1>4, <1>5, <1>5a, <1>6, <1>7, <1>8, <1>9 DEF Next, Receive

(* Everything has its type (TypeOK), for any values of the constants.      *)
THEOREM Typing == Spec => []TypeOK
  <1>1. Init => TypeOK
    <2> SUFFICES ASSUME Init PROVE TypeOK
        OBVIOUS
    <2> DEFINE none == <<>>
    <2>1. /\ none \in Seq(Packets) /\ Len(none) = 0 /\ none \in Seq(Rows)
          /\ Unsent \in Seq(Rows)
        BY DEF Unsent, Rows
    <2>2. /\ signed \in BOOLEAN /\ late = 0 /\ nextListId \in {1, HalfIds - 1} /\ down = none
          /\ shown = [k \in Kinds |-> none] /\ memberCount = 0 /\ scanned = 0
          /\ due = [k \in Kinds |-> Unsent]
        BY DEF Init
    <2> HIDE DEF none
    <2>3. late \in 0 .. MaxLate /\ nextListId \in (-HalfIds)..(HalfIds - 1)
        BY <2>2, ListStreamAssumption
    <2>4. shown \in [Kinds -> Seq(Rows)] /\ \A k \in Kinds : Len(shown[k]) <= UiCap[k]
        BY <2>1, <2>2, ListStreamAssumption
    <2>5. due \in [Kinds -> Seq(Rows)]
        BY <2>1, <2>2
    <2>6. QED
        BY <2>1, <2>2, <2>3, <2>4, <2>5 DEF TypeOK
  <1>2. QED
      BY <1>1, TypesKept, PTL DEF Spec

-----------------------------------------------------------------------------
(* Ids tell streams apart. *)

(* IdsTellStreams, of the frames d. *)
Positive(d) == \A i \in 1 .. Len(d) : InStream(d[i]) => d[i].id > 0

Told(d) ==
  \A i, j \in 1 .. Len(d) :
    /\ i < j
    /\ InStream(d[i]) /\ InStream(d[j])
    /\ \A m \in 1 .. Len(d) : i < m /\ m < j => ~InStream(d[m])
    => (d[i].id = d[j].id <=> d[j].frame \in {"middle", "end"})

(* The counter stands one past the id of the last stream among the frames. *)
Follows(d, n) ==
  \A i \in 1 .. Len(d) :
    InStream(d[i]) /\ (\A m \in 1 .. Len(d) : i < m => ~InStream(d[m]))
      => n = Wrap(d[i].id + 1)

Distinct(d, n) == Positive(d) /\ Told(d) /\ Follows(d, n)

(* Where the frames of d \o e come from.                                   *)
LEMMA Joined ==
  ASSUME NEW d \in Seq(Packets), NEW e \in Seq(Packets)
  PROVE  /\ Len(d) \in Nat /\ Len(e) \in Nat
         /\ d \o e \in Seq(Packets) /\ Len(d \o e) = Len(d) + Len(e)
         /\ \A i \in 1 .. Len(d) : (d \o e)[i] = d[i] /\ i \in 1 .. Len(d \o e)
         /\ \A i \in 1 .. Len(d \o e) :
              i \notin 1 .. Len(d) => i - Len(d) \in 1 .. Len(e) /\ (d \o e)[i] = e[i - Len(d)]
  <1>1. Len(d) \in Nat /\ Len(e) \in Nat
      OBVIOUS
  <1>2. /\ d \o e \in Seq(Packets) /\ Len(d \o e) = Len(d) + Len(e)
        /\ \A i \in 1 .. Len(d) + Len(e) :
             (d \o e)[i] = IF i <= Len(d) THEN d[i] ELSE e[i - Len(d)]
      BY ConcatProperties
  <1>3. QED
      BY <1>1, <1>2

(* Frames that belong to no stream change nothing.                         *)
LEMMA QuietFrames ==
  ASSUME NEW d \in Seq(Packets), NEW e \in Seq(Packets), NEW n, Distinct(d, n),
         \A j \in 1 .. Len(e) : ~InStream(e[j])
  PROVE  Distinct(d \o e, n)
  <1> DEFINE x == d \o e
  <1>1. /\ Len(d) \in Nat /\ Len(e) \in Nat
        /\ x \in Seq(Packets) /\ Len(x) = Len(d) + Len(e)
        /\ \A i \in 1 .. Len(d) : x[i] = d[i] /\ i \in 1 .. Len(x)
        /\ \A i \in 1 .. Len(x) : i \notin 1 .. Len(d) => i - Len(d) \in 1 .. Len(e) /\ x[i] = e[i - Len(d)]
      BY Joined
  <1> HIDE DEF x
  <1>2. ASSUME NEW i \in 1 .. Len(x), InStream(x[i])
        PROVE  i \in 1 .. Len(d) /\ x[i] = d[i]
      BY <1>1, <1>2
  <1>3. Positive(x)
      BY <1>2 DEF Positive, Distinct
  <1>4. Told(x)
    <2> SUFFICES ASSUME NEW i \in 1 .. Len(x), NEW j \in 1 .. Len(x), i < j,
                        InStream(x[i]), InStream(x[j]),
                        \A m \in 1 .. Len(x) : i < m /\ m < j => ~InStream(x[m])
                 PROVE  x[i].id = x[j].id <=> x[j].frame \in {"middle", "end"}
        BY DEF Told
    <2>1. i \in 1 .. Len(d) /\ j \in 1 .. Len(d) /\ x[i] = d[i] /\ x[j] = d[j]
        BY <1>2
    <2>2. \A m \in 1 .. Len(d) : i < m /\ m < j => ~InStream(d[m])
        BY <1>1
    <2>3. QED
        BY <2>1, <2>2 DEF Told, Distinct
  <1>5. Follows(x, n)
    <2> SUFFICES ASSUME NEW i \in 1 .. Len(x), InStream(x[i]),
                        \A m \in 1 .. Len(x) : i < m => ~InStream(x[m])
                 PROVE  n = Wrap(x[i].id + 1)
        BY DEF Follows
    <2>1. i \in 1 .. Len(d) /\ x[i] = d[i]
        BY <1>2
    <2>2. \A m \in 1 .. Len(d) : i < m => ~InStream(d[m])
        BY <1>1
    <2>3. QED
        BY <2>1, <2>2 DEF Follows, Distinct
  <1>6. QED
      BY <1>3, <1>4, <1>5 DEF Distinct, x

(* The frames e are those of one stream, and its id is a.                  *)
Stream(e, a) ==
  \A j \in 1 .. Len(e) :
    InStream(e[j]) /\ e[j].id = a /\ (e[j].frame \in {"middle", "end"} <=> j # 1)

(* The last stream among the frames d has another id than a.               *)
NotLast(d, a) ==
  \A i \in 1 .. Len(d) :
    InStream(d[i]) /\ (\A m \in 1 .. Len(d) : i < m => ~InStream(d[m])) => d[i].id # a

(* The frames of a stream, added to those under way.                       *)
LEMMA StreamFrames ==
  ASSUME NEW d \in Seq(Packets), NEW e \in Seq(Packets), NEW a \in Int, NEW n,
         Distinct(d, n), Len(e) > 0, a > 0, Stream(e, a), NotLast(d, a)
  PROVE  Distinct(d \o e, Wrap(a + 1))
  <1> DEFINE x == d \o e
  <1>1. /\ Len(d) \in Nat /\ Len(e) \in Nat
        /\ x \in Seq(Packets) /\ Len(x) = Len(d) + Len(e)
        /\ \A i \in 1 .. Len(d) : x[i] = d[i] /\ i \in 1 .. Len(x)
        /\ \A i \in 1 .. Len(x) : i \notin 1 .. Len(d) => i - Len(d) \in 1 .. Len(e) /\ x[i] = e[i - Len(d)]
      BY Joined
  <1>3. \A j \in 1 .. Len(e) :
          InStream(e[j]) /\ e[j].id = a /\ (e[j].frame \in {"middle", "end"} <=> j # 1)
      BY DEF Stream
  <1> HIDE DEF x
  <1>4. ASSUME NEW i \in 1 .. Len(x), i \notin 1 .. Len(d)
        PROVE  InStream(x[i]) /\ x[i].id = a /\ (x[i].frame \in {"middle", "end"} <=> i - Len(d) # 1)
    <2> DEFINE l == i - Len(d)
    <2>1. l \in 1 .. Len(e) /\ x[i] = e[l]
        BY <1>1, <1>4
    <2> HIDE DEF l
    <2>2. InStream(e[l]) /\ e[l].id = a /\ (e[l].frame \in {"middle", "end"} <=> l # 1)
        BY <1>3, <2>1
    <2>3. QED
        BY <2>1, <2>2 DEF l
  <1>5. Positive(d) /\ Told(d)
      BY DEF Distinct
  <1>6. Positive(x)
    <2> SUFFICES ASSUME NEW i \in 1 .. Len(x), InStream(x[i]) PROVE x[i].id > 0
        BY DEF Positive
    <2>1. CASE i \in 1 .. Len(d)
        BY <1>1, <1>5, <2>1 DEF Positive
    <2>2. CASE i \notin 1 .. Len(d)
        BY <1>4, <2>2
    <2>3. QED
        BY <2>1, <2>2
  <1>7. Told(x)
    <2> SUFFICES ASSUME NEW i \in 1 .. Len(x), NEW j \in 1 .. Len(x), i < j,
                        InStream(x[i]), InStream(x[j]),
                        \A m \in 1 .. Len(x) : i < m /\ m < j => ~InStream(x[m])
                 PROVE  x[i].id = x[j].id <=> x[j].frame \in {"middle", "end"}
        BY DEF Told
    <2>1. CASE j \in 1 .. Len(d)
      <3>1. i \in 1 .. Len(d) /\ x[i] = d[i] /\ x[j] = d[j]
          BY <1>1, <2>1
      <3>2. \A m \in 1 .. Len(d) : i < m /\ m < j => ~InStream(d[m])
          BY <1>1
      <3>3. QED
          BY <1>5, <2>1, <3>1, <3>2 DEF Told
    <2>2. CASE i \in 1 .. Len(d) /\ j \notin 1 .. Len(d)
      <3>1. Len(d) + 1 \in 1 .. Len(x) /\ Len(d) + 1 \notin 1 .. Len(d) /\ i < Len(d) + 1
            /\ Len(d) + 1 - Len(d) = 1 /\ j >= Len(d) + 1
          BY <1>1, <2>2
      <3>2. InStream(x[Len(d) + 1])
          BY <1>1, <1>4, <3>1
      <3>3. j = Len(d) + 1
          BY <3>1, <3>2
      <3>4. x[j].id = a /\ x[j].frame \notin {"middle", "end"}
          BY <1>1, <1>4, <3>1, <3>3
      <3>5. \A m \in 1 .. Len(d) : i < m => ~InStream(d[m])
          BY <1>1, <3>3
      <3>6. x[i] = d[i] /\ d[i].id # a
          BY <1>1, <2>2, <3>5 DEF NotLast
      <3>7. QED
          BY <3>4, <3>6
    <2>3. CASE i \notin 1 .. Len(d) /\ j \notin 1 .. Len(d)
      <3>1. /\ i - Len(d) \in 1 .. Len(e) /\ x[i] = e[i - Len(d)]
            /\ j - Len(d) \in 1 .. Len(e) /\ x[j] = e[j - Len(d)] /\ j - Len(d) # 1
          BY <1>1, <2>3
      <3>2. x[i].id = a
          BY <1>4, <2>3
      <3>3. x[j].id = a /\ (x[j].frame \in {"middle", "end"} <=> j - Len(d) # 1)
          BY <1>4, <2>3
      <3>4. QED
          BY <3>1, <3>2, <3>3
    <2>4. QED
        BY <1>1, <2>1, <2>2, <2>3
  <1>8. Follows(x, Wrap(a + 1))
    <2> SUFFICES ASSUME NEW i \in 1 .. Len(x), InStream(x[i]),
                        \A m \in 1 .. Len(x) : i < m => ~InStream(x[m])
                 PROVE  x[i].id = a
        BY DEF Follows
    <2>1. CASE i \in 1 .. Len(d)
      <3>1. Len(d) + 1 \in 1 .. Len(x) /\ Len(d) + 1 \notin 1 .. Len(d) /\ i < Len(d) + 1
          BY <1>1, <2>1
      <3>2. InStream(x[Len(d) + 1])
          BY <1>1, <1>4, <3>1
      <3>3. QED
          BY <3>1, <3>2
    <2>2. CASE i \notin 1 .. Len(d)
        BY <1>1, <1>4, <2>2
    <2>3. QED
        BY <2>1, <2>2
  <1>9. QED
      BY <1>6, <1>7, <1>8 DEF Distinct, x

(* The next id differs from the last, also where the counter wraps around. *)
LEMMA NextIdIsAnother ==
  ASSUME TypeOK, Distinct(down, nextListId)
  PROVE  NotLast(down, AllocateListId)
  <1> SUFFICES ASSUME NEW a \in 1 .. HalfIds - 1, nextListId = Wrap(a + 1)
               PROVE  AllocateListId # a
    <2> SUFFICES ASSUME NEW i \in 1 .. Len(down), InStream(down[i]),
                        \A m \in 1 .. Len(down) : i < m => ~InStream(down[m])
                 PROVE  down[i].id # AllocateListId
        BY DEF NotLast
    <2>1. nextListId = Wrap(down[i].id + 1) /\ down[i].id > 0
        BY DEF Distinct, Follows, Positive
    <2>2. down[i] \in Packets
        BY DEF TypeOK
    <2>3. down[i].id \in 1 .. HalfIds - 1
        BY <2>1, <2>2, ListStreamAssumption DEF Packets
    <2>4. QED
        BY <2>1, <2>3
  <1>1. HalfIds \in Nat /\ HalfIds > 2
      BY ListStreamAssumption
  <1>2. CASE a + 1 >= HalfIds
      BY <1>1, <1>2 DEF AllocateListId, Wrap
  <1>3. CASE ~(a + 1 >= HalfIds)
      BY <1>1, <1>3 DEF AllocateListId, Wrap
  <1>4. QED
      BY <1>2, <1>3

(* The frames after the first one.                                         *)
LEMMA LaterFrames ==
  ASSUME NEW d \in Seq(Packets), d # <<>>, NEW n, Distinct(d, n)
  PROVE  Distinct(Tail(d), n)
  <1> DEFINE x == Tail(d)
  <1>1. /\ Len(d) \in Nat /\ x \in Seq(Packets) /\ Len(x) = Len(d) - 1
        /\ \A i \in 1 .. Len(x) : x[i] = d[i + 1] /\ i + 1 \in 1 .. Len(d)
        /\ \A i \in 1 .. Len(d) : i > 1 => i - 1 \in 1 .. Len(x) /\ x[i - 1] = d[i]
      OBVIOUS
  <1> HIDE DEF x
  <1>2. Positive(x)
      BY <1>1 DEF Positive, Distinct
  <1>3. Told(x)
    <2> SUFFICES ASSUME NEW i \in 1 .. Len(x), NEW j \in 1 .. Len(x), i < j,
                        InStream(x[i]), InStream(x[j]),
                        \A m \in 1 .. Len(x) : i < m /\ m < j => ~InStream(x[m])
                 PROVE  x[i].id = x[j].id <=> x[j].frame \in {"middle", "end"}
        BY DEF Told
    <2>1. /\ i + 1 \in 1 .. Len(d) /\ j + 1 \in 1 .. Len(d) /\ x[i] = d[i + 1] /\ x[j] = d[j + 1]
          /\ i + 1 < j + 1
        BY <1>1
    <2>2. ASSUME NEW m \in 1 .. Len(d), i + 1 < m, m < j + 1
          PROVE  ~InStream(d[m])
      <3>1. m - 1 \in 1 .. Len(x) /\ x[m - 1] = d[m] /\ i < m - 1 /\ m - 1 < j
          BY <1>1, <2>2
      <3>2. QED
          BY <3>1
    <2>3. QED
        BY <2>1, <2>2 DEF Told, Distinct
  <1>4. Follows(x, n)
    <2> SUFFICES ASSUME NEW i \in 1 .. Len(x), InStream(x[i]),
                        \A m \in 1 .. Len(x) : i < m => ~InStream(x[m])
                 PROVE  n = Wrap(x[i].id + 1)
        BY DEF Follows
    <2>1. i + 1 \in 1 .. Len(d) /\ x[i] = d[i + 1]
        BY <1>1
    <2>2. ASSUME NEW m \in 1 .. Len(d), i + 1 < m
          PROVE  ~InStream(d[m])
      <3>1. m - 1 \in 1 .. Len(x) /\ x[m - 1] = d[m] /\ i < m - 1
          BY <1>1, <2>2
      <3>2. QED
          BY <3>1
    <2>3. QED
        BY <2>1, <2>2 DEF Follows, Distinct
  <1>5. QED
      BY <1>2, <1>3, <1>4 DEF Distinct, x

LEMMA IdsKept ==
  ASSUME TypeOK, Distinct(down, nextListId), [Next]_vars
  PROVE  Distinct(down', nextListId')
  <1>1. down \in Seq(Packets)
      BY DEF TypeOK
  <1>2. CASE \E k \in Collected : StreamCollected(k)
    <2>1. PICK k \in Collected : StreamCollected(k)
        BY <1>2
    <2>2. PICK L \in Seq(Rows), m \in 0 .. MaxRows :
            /\ Len(L) <= AccCap[k]
            /\ down' = down \o ListResponse(k, L, m, AllocateListId)
            /\ nextListId' = Wrap(AllocateListId + 1)
        BY <2>1, ListGoesOut
    <2> DEFINE F == ListResponse(k, L, m, AllocateListId)
               a == AllocateListId
    <2>3. a \in 1 .. HalfIds - 1 /\ a \in Int /\ a > 0
        BY Allocated, ListStreamAssumption
    <2>4. /\ F \in Seq(Packets) /\ Len(F) = IF Len(L) = 0 THEN 1 ELSE Len(L)
          /\ \A j \in 1 .. Len(F) :
               /\ F[j].kind = k /\ F[j].id = a
               /\ F[j].frame = IF Len(L) = 0 THEN "single" ELSE FrameOf(j, Len(L))
        BY <2>2, <2>3, ListSent
    <2>5. down' = down \o F /\ nextListId' = Wrap(a + 1)
        BY <2>2
    <2>6. NotLast(down, a)
        BY NextIdIsAnother
    <2> HIDE DEF F, a
    <2>7. Len(F) > 0 /\ Len(L) \in Nat
        BY <2>2, <2>4
    <2>8. ASSUME NEW j \in 1 .. Len(F)
          PROVE  InStream(F[j]) /\ F[j].id = a /\ (F[j].frame \in {"middle", "end"} <=> j # 1)
      <3>1. F[j].kind = k /\ F[j].id = a
          BY <2>4
      <3>2. InStream(F[j])
          BY <2>3, <3>1 DEF InStream, Collected
      <3>3. CASE Len(L) = 0
        <4>1. j = 1 /\ F[j].frame = "single"
            BY <2>4, <3>3
        <4>2. QED
            BY <3>1, <3>2, <4>1
      <3>4. CASE Len(L) # 0
        <4>1. F[j].frame = FrameOf(j, Len(L)) /\ j \in 1 .. Len(L)
            BY <2>4, <3>4
        <4>2. FrameOf(j, Len(L)) \in {"middle", "end"} <=> j # 1
          <5>1. CASE j = 1
              BY <5>1 DEF FrameOf
          <5>2. CASE j # 1
            <6>1. ~(j \in 1 .. 1)
                BY <5>2
            <6>2. Len(L) # 1
                BY <4>1, <6>1
            <6>3. QED
                BY <5>2, <6>2 DEF FrameOf
          <5>3. QED
              BY <5>1, <5>2
        <4>3. QED
            BY <3>1, <3>2, <4>1, <4>2
      <3>5. QED
          BY <3>3, <3>4
    <2>9. Stream(F, a)
        BY <2>8 DEF Stream
    <2>10. Distinct(down \o F, Wrap(a + 1))
        BY <1>1, <2>3, <2>4, <2>6, <2>7, <2>9, StreamFrames
    <2>11. QED
        BY <2>5, <2>10
  <1>3. CASE StreamFriends
    <2>1. PICK L \in Seq(Rows) :
            Len(L) <= MaxRows /\ down' = down \o BracketedResponse(L) /\ nextListId' = nextListId
        BY <1>3, FriendsGoOut
    <2> DEFINE F == BracketedResponse(L)
    <2>2. F \in Seq(Packets) /\ \A j \in 1 .. Len(F) : F[j].kind = "friends"
        BY <2>1, FriendsSent
    <2>3. \A j \in 1 .. Len(F) : ~InStream(F[j])
        BY <2>2 DEF InStream
    <2>4. down' = down \o F
        BY <2>1
    <2> HIDE DEF F
    <2>5. QED
        BY <1>1, <2>1, <2>2, <2>3, <2>4, QuietFrames
  <1>4. ASSUME NEW p \in Packets, ~InStream(p), down' = Append(down, p), nextListId' = nextListId
        PROVE  Distinct(down', nextListId')
    <2> DEFINE e == <<p>>
    <2>1. e \in Seq(Packets) /\ \A j \in 1 .. Len(e) : ~InStream(e[j])
        BY <1>4
    <2>2. down' = down \o e
        BY <1>1, <1>4, AppendIsConcat
    <2> HIDE DEF e
    <2>3. QED
        BY <1>1, <1>4, <2>1, <2>2, QuietFrames
  <1>5. CASE SignOut
    <2>1. down' = Append(down, EndNotice) /\ nextListId' = nextListId
        BY <1>5 DEF SignOut, EndNotice
    <2>2. QED
        BY <1>4, <2>1, SingleFrames
  <1>6. CASE (\E k \in Kinds : Refuse(k)) \/ (\E k \in Collected : FailedQuery(k))
    <2>1. PICK k \in Kinds : down' = Append(down, ErrorFrame(k)) /\ nextListId' = nextListId
        BY <1>6 DEF Refuse, FailedQuery, Kinds
    <2>2. QED
        BY <1>4, <2>1, SingleFrames
  <1>7. CASE Receive
    <2>1. down # <<>> /\ down' = Tail(down) /\ nextListId' = nextListId
        BY <1>7, Received
    <2>2. QED
        BY <1>1, <2>1, LaterFrames
  <1>8. CASE SignIn \/ Kick \/ UNCHANGED vars
      BY <1>8 DEF SignIn, Kick, vars
  <1>9. QED
      BY <1>2, <1>3, <1>5, <1>6, <1>7, <1>8 DEF Next, Receive

(* The id in the header is positive, the same in the frames of a stream    *)
(* and another in the next one (IdsTellStreams), for any number of ids     *)
(* from three up: also when the counter wraps around.                      *)
THEOREM IdsTell == Spec => []IdsTellStreams
  <1>1. Init => Distinct(down, nextListId)
    <2> SUFFICES ASSUME Init PROVE Distinct(down, nextListId)
        OBVIOUS
    <2>1. Len(down) = 0
        BY DEF Init
    <2>2. QED
        BY <2>1 DEF Distinct, Positive, Told, Follows
  <1>2. TypeOK /\ Distinct(down, nextListId) /\ [Next]_vars => Distinct(down, nextListId)'
      BY IdsKept
  <1>3. Distinct(down, nextListId) => IdsTellStreams
      BY DEF Distinct, Positive, Told, IdsTellStreams
  <1>4. QED
      BY <1>1, <1>2, <1>3, Typing, PTL DEF Spec

-----------------------------------------------------------------------------
(* What the client has on its screen once it has read every frame. *)

(* f holds the screens of a client that starts from s and reads d: f[i] is *)
(* the one after i frames.                                                 *)
Reads(f, s, d) ==
  /\ f[0] = s
  /\ \A i \in 0 .. Len(d) : f[i] \in Screens
  /\ \A i \in 1 .. Len(d) : f[i] = After(f[i - 1], d[i])

(* Reading d, the client gets from the screen s to the screen t.           *)
Leads(s, d, t) == \E f : Reads(f, s, d) /\ f[Len(d)] = t

(* Having read the first frame, the client has the rest before it.         *)
LEMMA ReadFirst ==
  ASSUME NEW s, NEW d \in Seq(Packets), NEW t, d # <<>>, Leads(s, d, t)
  PROVE  Leads(After(s, Head(d)), Tail(d), t)
  <1>1. PICK f : Reads(f, s, d) /\ f[Len(d)] = t
      BY DEF Leads
  <1> DEFINE x == Tail(d)
             g == [i \in 0 .. Len(x) |-> f[i + 1]]
  <1>2. /\ Len(d) \in Nat /\ Len(x) = Len(d) - 1 /\ Len(x) \in Nat /\ Head(d) = d[1]
        /\ \A i \in 1 .. Len(x) : x[i] = d[i + 1]
      OBVIOUS
  <1> HIDE DEF x
  <1>3. /\ \A i \in 0 .. Len(x) : g[i] = f[i + 1] /\ i + 1 \in 0 .. Len(d) /\ i + 1 \in 1 .. Len(d)
        /\ 0 \in 0 .. Len(x) /\ Len(x) \in 0 .. Len(x) /\ Len(x) + 1 = Len(d)
        /\ 1 \in 1 .. Len(d) /\ 0 + 1 = 1 /\ 1 - 1 = 0
      BY <1>2
  <1> HIDE DEF g
  <1>4. f[1] = After(s, d[1])
      BY <1>1, <1>3 DEF Reads
  <1>5. g[0] = After(s, Head(d)) /\ g[Len(x)] = t
      BY <1>1, <1>2, <1>3, <1>4
  <1>6. \A i \in 0 .. Len(x) : g[i] \in Screens
      BY <1>1, <1>3 DEF Reads
  <1>7. ASSUME NEW i \in 1 .. Len(x)
        PROVE  g[i] = After(g[i - 1], x[i])
    <2>1. /\ i \in 0 .. Len(x) /\ i - 1 \in 0 .. Len(x) /\ i + 1 \in 1 .. Len(d)
          /\ (i - 1) + 1 = i /\ (i + 1) - 1 = i
        BY <1>2, <1>3
    <2>2. f[i + 1] = After(f[i], d[i + 1])
        BY <1>1, <2>1 DEF Reads
    <2>3. QED
        BY <1>2, <1>3, <2>1, <2>2
  <1>8. Reads(g, After(s, Head(d)), x)
      BY <1>5, <1>6, <1>7 DEF Reads
  <1>9. QED
      BY <1>5, <1>8 DEF Leads, x

(* Frames that are added are read after the others.                        *)
LEMMA ReadOn ==
  ASSUME NEW s, NEW d \in Seq(Packets), NEW e \in Seq(Packets), NEW t, NEW u,
         Leads(s, d, t), Leads(t, e, u)
  PROVE  Leads(s, d \o e, u)
  <1>1. PICK f : Reads(f, s, d) /\ f[Len(d)] = t
      BY DEF Leads
  <1>2. PICK h : Reads(h, t, e) /\ h[Len(e)] = u
      BY DEF Leads
  <1> DEFINE x == d \o e
             g == [i \in 0 .. Len(x) |-> IF i \in 0 .. Len(d) THEN f[i] ELSE h[i - Len(d)]]
  <1>3. /\ Len(d) \in Nat /\ Len(e) \in Nat /\ Len(x) = Len(d) + Len(e)
        /\ \A i \in 1 .. Len(d) : x[i] = d[i] /\ i \in 1 .. Len(x)
        /\ \A i \in 1 .. Len(x) : i \notin 1 .. Len(d) => i - Len(d) \in 1 .. Len(e) /\ x[i] = e[i - Len(d)]
      BY Joined
  <1> HIDE DEF x
  <1>4. \A i \in 0 .. Len(x) : g[i] = IF i \in 0 .. Len(d) THEN f[i] ELSE h[i - Len(d)]
      OBVIOUS
  <1> HIDE DEF g
  <1>5. h[0] = f[Len(d)]
      BY <1>1, <1>2 DEF Reads
  <1>6. ASSUME NEW i \in 0 .. Len(e)
        PROVE  g[Len(d) + i] = h[i]
    <2>1. CASE i = 0
      <3>1. Len(d) + i = Len(d) /\ Len(d) \in 0 .. Len(d) /\ Len(d) \in 0 .. Len(x)
          BY <1>3, <2>1
      <3>2. QED
          BY <1>4, <1>5, <2>1, <3>1
    <2>2. CASE i # 0
      <3>1. Len(d) + i \in 0 .. Len(x) /\ Len(d) + i \notin 0 .. Len(d) /\ (Len(d) + i) - Len(d) = i
          BY <1>3, <2>2
      <3>2. QED
          BY <1>4, <3>1
    <2>3. QED
        BY <2>1, <2>2
  <1>7. g[0] = s
      BY <1>1, <1>3, <1>4 DEF Reads
  <1>8. g[Len(x)] = u
      BY <1>2, <1>3, <1>6
  <1>9. ASSUME NEW i \in 0 .. Len(x)
        PROVE  g[i] \in Screens
    <2>1. CASE i \in 0 .. Len(d)
        BY <1>1, <1>4, <2>1 DEF Reads
    <2>2. CASE i \notin 0 .. Len(d)
      <3>1. i - Len(d) \in 0 .. Len(e) /\ g[i] = h[i - Len(d)]
          BY <1>3, <1>4, <2>2
      <3>2. QED
          BY <1>2, <3>1 DEF Reads
    <2>3. QED
        BY <2>1, <2>2
  <1>10. ASSUME NEW i \in 1 .. Len(x)
        PROVE  g[i] = After(g[i - 1], x[i])
    <2>1. CASE i \in 1 .. Len(d)
      <3>1. i \in 0 .. Len(x) /\ i \in 0 .. Len(d) /\ i - 1 \in 0 .. Len(x) /\ i - 1 \in 0 .. Len(d)
          BY <1>3, <2>1
      <3>2. g[i] = f[i] /\ g[i - 1] = f[i - 1] /\ x[i] = d[i]
          BY <1>3, <1>4, <2>1, <3>1
      <3>3. QED
          BY <1>1, <2>1, <3>2 DEF Reads
    <2>2. CASE i \notin 1 .. Len(d)
      <3> DEFINE l == i - Len(d)
      <3>1. /\ l \in 1 .. Len(e) /\ l \in 0 .. Len(e) /\ l - 1 \in 0 .. Len(e) /\ x[i] = e[l]
            /\ Len(d) + l = i /\ Len(d) + (l - 1) = i - 1
          BY <1>3, <2>2
      <3> HIDE DEF l
      <3>2. g[i] = h[l] /\ g[i - 1] = h[l - 1]
          BY <1>6, <3>1
      <3>3. h[l] = After(h[l - 1], e[l])
          BY <1>2, <3>1 DEF Reads
      <3>4. QED
          BY <3>1, <3>2, <3>3
    <2>3. QED
        BY <2>1, <2>2
  <1>11. Reads(g, s, x)
      BY <1>7, <1>9, <1>10 DEF Reads
  <1>12. QED
      BY <1>8, <1>11 DEF Leads, x

(* The screen the client gets to is one.                                   *)
LEMMA LeadsTyped ==
  ASSUME NEW s, NEW d \in Seq(Packets), NEW t, Leads(s, d, t)
  PROVE  t \in Screens
  <1>1. Len(d) \in 0 .. Len(d)
      OBVIOUS
  <1>2. QED
      BY <1>1 DEF Leads, Reads

(* Without frames, the client stays where it is.                           *)
LEMMA ReadNone ==
  ASSUME NEW s, NEW d \in Seq(Packets), Len(d) = 0
  PROVE  /\ \A t : Leads(s, d, t) => t = s
         /\ s \in Screens => Leads(s, d, s)
  <1>1. ASSUME NEW t, Leads(s, d, t)
        PROVE  t = s
      BY <1>1 DEF Leads, Reads
  <1>2. ASSUME s \in Screens
        PROVE  Leads(s, d, s)
    <2> DEFINE f == [i \in 0 .. 0 |-> s]
    <2>1. f[0] = s /\ \A i \in 0 .. 0 : f[i] \in Screens
        BY <1>2
    <2> HIDE DEF f
    <2>2. Reads(f, s, d) /\ f[Len(d)] = s
        BY <2>1 DEF Reads
    <2>3. QED
        BY <2>2 DEF Leads
  <1>3. QED
      BY <1>1, <1>2

(* One more frame.                                                         *)
LEMMA ReadOne ==
  ASSUME NEW s, NEW d \in Seq(Packets), NEW p \in Packets, NEW t, Leads(s, d, t)
  PROVE  Leads(s, Append(d, p), After(t, p))
  <1> DEFINE e == <<p>>
             h == [i \in 0 .. 1 |-> IF i = 0 THEN t ELSE After(t, p)]
  <1>1. t \in Screens /\ After(t, p) \in Screens
      BY LeadsTyped, AfterTyped
  <1>2. e \in Seq(Packets) /\ Len(e) = 1 /\ e[1] = p /\ Append(d, p) = d \o e
      BY AppendIsConcat
  <1>3. h[0] = t /\ h[1] = After(t, p)
      OBVIOUS
  <1> HIDE DEF e, h
  <1>4. Reads(h, t, e)
    <2>1. \A i \in 0 .. Len(e) : i = 0 \/ i = 1
        BY <1>2
    <2>2. \A i \in 1 .. Len(e) : i = 1 /\ i - 1 = 0
        BY <1>2
    <2>3. QED
        BY <1>1, <1>2, <1>3, <2>1, <2>2 DEF Reads
  <1>5. Leads(t, e, After(t, p))
      BY <1>2, <1>3, <1>4 DEF Leads
  <1>6. QED
      BY <1>2, <1>5, ReadOn

(* What the client has of the list L after j of its rows. *)
Got(L, k, j) == Cut(L, IF j < UiCap[k] THEN j ELSE UiCap[k])

LEMMA RowsGot ==
  ASSUME NEW k \in Kinds, NEW L \in Seq(Rows)
  PROVE  /\ Len(Got(L, k, 0)) = 0
         /\ Got(L, k, Len(L)) = Cut(L, UiCap[k])
         /\ \A j \in 0 .. Len(L) : Got(L, k, j) \in Seq(Rows) /\ Len(Got(L, k, j)) <= UiCap[k]
         /\ \A j \in 1 .. Len(L) :
              /\ Len(Got(L, k, j)) > 0
              /\ Got(L, k, j) = IF Len(Got(L, k, j - 1)) < UiCap[k]
                                  THEN Append(Got(L, k, j - 1), L[j])
                                  ELSE Got(L, k, j - 1)
  <1> DEFINE c == UiCap[k]
             n(j) == IF j < c THEN j ELSE c
  <1>1. c \in Nat \ {0} /\ Len(L) \in Nat
      BY ListStreamAssumption
  <1>2. \A j \in 0 .. Len(L) : n(j) \in Nat /\ n(j) <= c /\ n(j) <= Len(L) /\ n(j) <= j
      BY <1>1
  <1>3. /\ \A j \in 1 .. Len(L) : n(j) > 0 /\ j - 1 \in 0 .. Len(L) /\ j \in 0 .. Len(L)
        /\ \A j \in 1 .. Len(L) : n(j) = IF n(j - 1) < c THEN n(j - 1) + 1 ELSE n(j - 1)
        /\ \A j \in 1 .. Len(L) : n(j - 1) < c => n(j) = j /\ n(j - 1) = j - 1
        /\ n(0) = 0
      BY <1>1
  <1>4. \A j : Got(L, k, j) = Cut(L, n(j))
      BY DEF Got
  <1> HIDE DEF c, n
  <1>5. ASSUME NEW j \in 0 .. Len(L)
        PROVE  /\ Got(L, k, j) \in Seq(Rows) /\ Len(Got(L, k, j)) = n(j)
               /\ \A i \in 1 .. n(j) : Got(L, k, j)[i] = L[i]
    <2>1. /\ Cut(L, n(j)) \in Seq(Rows)
          /\ Len(Cut(L, n(j))) = IF Len(L) < n(j) THEN Len(L) ELSE n(j)
          /\ \A i \in 1 .. Len(Cut(L, n(j))) : Cut(L, n(j))[i] = L[i]
        BY <1>2, Cuts
    <2>2. ~(Len(L) < n(j))
        BY <1>1, <1>2
    <2>3. QED
        BY <1>4, <2>1, <2>2
  <1>6. ASSUME NEW j \in 1 .. Len(L)
        PROVE  Got(L, k, j) = IF Len(Got(L, k, j - 1)) < c
                                THEN Append(Got(L, k, j - 1), L[j])
                                ELSE Got(L, k, j - 1)
    <2> DEFINE a == Got(L, k, j)
               b == Got(L, k, j - 1)
    <2>1. /\ a \in Seq(Rows) /\ Len(a) = n(j) /\ \A i \in 1 .. n(j) : a[i] = L[i]
          /\ b \in Seq(Rows) /\ Len(b) = n(j - 1) /\ \A i \in 1 .. n(j - 1) : b[i] = L[i]
          /\ L[j] \in Rows
        BY <1>3, <1>5
    <2> HIDE DEF a, b
    <2>2. CASE n(j - 1) < c
      <3>1. n(j) = j /\ n(j - 1) = j - 1
          BY <1>3, <2>2
      <3>2. /\ Append(b, L[j]) \in Seq(Rows) /\ Len(Append(b, L[j])) = j
            /\ \A i \in 1 .. j - 1 : Append(b, L[j])[i] = L[i]
            /\ Append(b, L[j])[j] = L[j]
          BY <2>1, <3>1
      <3>3. \A i \in 1 .. j : i \in 1 .. j - 1 \/ i = j
          OBVIOUS
      <3>4. \A i \in 1 .. Len(a) : a[i] = Append(b, L[j])[i]
          BY <2>1, <3>1, <3>2, <3>3
      <3>5. a = Append(b, L[j])
          BY <2>1, <3>1, <3>2, <3>4, SeqEqual
      <3>6. QED
          BY <2>1, <2>2, <3>5 DEF a, b
    <2>3. CASE ~(n(j - 1) < c)
      <3>1. n(j) = n(j - 1)
          BY <1>3, <2>3
      <3>2. a = b
          BY <2>1, <3>1, SeqEqual
      <3>3. QED
          BY <2>1, <2>3, <3>2 DEF a, b
    <2>4. QED
        BY <2>2, <2>3
  <1>7. Got(L, k, Len(L)) = Cut(L, c)
    <2>1. /\ Cut(L, c) \in Seq(Rows) /\ Len(Cut(L, c)) = IF Len(L) < c THEN Len(L) ELSE c
          /\ \A i \in 1 .. Len(Cut(L, c)) : Cut(L, c)[i] = L[i]
        BY <1>1, Cuts
    <2>2. Len(L) \in 0 .. Len(L) /\ n(Len(L)) = IF Len(L) < c THEN Len(L) ELSE c
        BY <1>1 DEF n
    <2> DEFINE a == Got(L, k, Len(L))
               b == Cut(L, c)
    <2>3. a \in Seq(Rows) /\ Len(a) = n(Len(L)) /\ \A i \in 1 .. n(Len(L)) : a[i] = L[i]
        BY <1>5, <2>2
    <2> HIDE DEF a
    <2>4. b \in Seq(Rows) /\ Len(b) = n(Len(L)) /\ \A i \in 1 .. n(Len(L)) : b[i] = L[i]
        BY <2>1, <2>2
    <2> HIDE DEF b
    <2>5. a = b
        BY <2>3, <2>4, SeqEqual
    <2>6. QED
        BY <2>5 DEF a, b
  <1>8. Len(Got(L, k, 0)) = 0
    <2>1. 0 \in 0 .. Len(L)
        BY <1>1
    <2>2. QED
        BY <1>3, <1>5, <2>1
  <1>9. QED
      BY <1>2, <1>3, <1>5, <1>6, <1>7, <1>8 DEF c

(* One row more: the first frame starts the list over, a later one adds to *)
(* what there is of it.                                                    *)
LEMMA OneRowMore ==
  ASSUME NEW s \in Screens, NEW k \in Kinds, NEW L \in Seq(Rows), NEW j \in 1 .. Len(L),
         NEW p \in Packets, p.row = L[j], p.total = Len(L),
         p.frame \in {"start", "single"} <=> j = 1,
         j # 1 => s[k] = Got(L, k, j - 1)
  PROVE  FilledFrom(s, k, p) = Got(L, k, j)
  <1> DEFINE old == IF p.frame \in {"start", "single"} THEN <<>> ELSE s[k]
  <1>1. FilledFrom(s, k, p) =
          IF p.total > 0 /\ Len(old) < UiCap[k] THEN Append(old, p.row) ELSE old
      BY DEF FilledFrom
  <1>2. /\ Len(Got(L, k, 0)) = 0 /\ Got(L, k, j - 1) \in Seq(Rows)
        /\ Got(L, k, j) = IF Len(Got(L, k, j - 1)) < UiCap[k]
                            THEN Append(Got(L, k, j - 1), L[j]) ELSE Got(L, k, j - 1)
    <2>1. j - 1 \in 0 .. Len(L)
        OBVIOUS
    <2>2. QED
        BY <2>1, RowsGot
  <1>3. old = Got(L, k, j - 1)
    <2>1. CASE j = 1
      <3>1. j - 1 = 0
          BY <2>1
      <3>2. old = <<>>
          BY <2>1
      <3>3. Got(L, k, j - 1) = <<>>
        <4> DEFINE g == Got(L, k, j - 1)
        <4>1. g \in Seq(Rows) /\ Len(g) = 0
            BY <1>2, <3>1
        <4> HIDE DEF g
        <4>2. g = <<>>
            BY <4>1
        <4>3. QED
            BY <4>2 DEF g
      <3>4. QED
          BY <3>2, <3>3
    <2>2. CASE j # 1
        BY <2>2
    <2>3. QED
        BY <2>1, <2>2
  <1> HIDE DEF old
  <1>4. p.total > 0
      OBVIOUS
  <1>5. QED
      BY <1>1, <1>2, <1>3, <1>4

(* A screen on which one array is replaced by rows that fit.               *)
LEMMA Redrawn ==
  ASSUME NEW s \in Screens, NEW k \in Kinds, NEW r \in Seq(Rows), Len(r) <= UiCap[k]
  PROVE  [s EXCEPT ![k] = r] \in Screens
  <1>1. s \in [Kinds -> Seq(Rows)] /\ \A l \in Kinds : Len(s[l]) <= UiCap[l]
      BY DEF Screens
  <1>2. QED
      BY <1>1 DEF Screens

(* The frames F carry the list L of kind k.                                *)
Carries(F, k, L) ==
  /\ Len(F) = IF Len(L) = 0 THEN 1 ELSE Len(L)
  /\ \A j \in 1 .. Len(F) :
       /\ F[j].kind = k
       /\ F[j].total = Len(L)
       /\ j \in 1 .. Len(L) => F[j].row = L[j]
       /\ F[j].frame \in {"start", "single"} <=> j = 1
       /\ F[j].frame # "logout"

LEMMA ListCarried ==
  ASSUME NEW k \in Collected, NEW L \in Seq(Rows), Len(L) <= AccCap[k], NEW m \in 0 .. MaxRows,
         NEW id \in 1 .. HalfIds - 1
  PROVE  /\ ListResponse(k, L, m, id) \in Seq(Packets)
         /\ Carries(ListResponse(k, L, m, id), k, L)
  <1> DEFINE F == ListResponse(k, L, m, id)
  <1>1. /\ F \in Seq(Packets)
        /\ Len(F) = IF Len(L) = 0 THEN 1 ELSE Len(L)
        /\ \A j \in 1 .. Len(F) :
             /\ F[j].kind = k
             /\ F[j].total = Len(L)
             /\ j \in 1 .. Len(L) => F[j].row = L[j]
             /\ F[j].frame = IF Len(L) = 0 THEN "single" ELSE FrameOf(j, Len(L))
      BY ListSent
  <1> HIDE DEF F
  <1>2. ASSUME NEW j \in 1 .. Len(F)
        PROVE  (F[j].frame \in {"start", "single"} <=> j = 1) /\ F[j].frame # "logout"
    <2>1. CASE Len(L) = 0
      <3>1. j = 1 /\ F[j].frame = "single"
          BY <1>1, <2>1
      <3>2. QED
          BY <3>1
    <2>2. CASE Len(L) # 0
      <3>1. F[j].frame = FrameOf(j, Len(L)) /\ j \in 1 .. Len(L)
          BY <1>1, <2>2
      <3>2. CASE j = 1
          BY <3>1, <3>2 DEF FrameOf
      <3>3. CASE j # 1
        <4>1. ~(j \in 1 .. 1)
            BY <3>3
        <4>2. Len(L) # 1
            BY <3>1, <4>1
        <4>3. QED
            BY <3>1, <3>3, <4>2 DEF FrameOf
      <3>4. QED
          BY <3>2, <3>3
    <2>3. QED
        BY <2>1, <2>2
  <1>3. QED
      BY <1>1, <1>2 DEF Carries, F

(* An error carries a list without rows.                                   *)
LEMMA ErrorCarried ==
  ASSUME NEW k \in Collected, NEW F, F = <<ErrorFrame(k)>>, NEW L, L = <<>>
  PROVE  /\ F \in Seq(Packets) /\ L \in Seq(Rows) /\ Len(L) = 0
         /\ Carries(F, k, L)
  <1>1. /\ ErrorFrame(k) \in Packets /\ ErrorFrame(k).frame = "single"
        /\ ErrorFrame(k).kind = k /\ ErrorFrame(k).total = 0
      BY SingleFrames DEF Kinds
  <1>2. F \in Seq(Packets) /\ Len(F) = 1 /\ F[1] = ErrorFrame(k)
      BY <1>1
  <1>3. L \in Seq(Rows) /\ Len(L) = 0
      OBVIOUS
  <1>4. \A j \in 1 .. Len(F) : j = 1 /\ F[j] = ErrorFrame(k)
      BY <1>2
  <1>5. \A j \in 1 .. Len(F) : j \notin 1 .. Len(L)
      BY <1>3
  <1>6. QED
      BY <1>1, <1>2, <1>3, <1>4, <1>5 DEF Carries

(* The screen with the list L of servers, the slot cleared if it is filled. *)
ServersShown(s, L) ==
  IF Len(L) = 0 THEN [s EXCEPT !["servers"] = <<>>]
  ELSE [s EXCEPT !["servers"] = Cut(L, UiCap["servers"]), !["channels"] = <<>>, !["members"] = <<>>]

LEMMA ServersRead ==
  ASSUME NEW s \in Screens, NEW L \in Seq(Rows), NEW F \in Seq(Packets), Carries(F, "servers", L)
  PROVE  Leads(s, F, ServersShown(s, L))
  <1> DEFINE none == <<>>
             At(j) == [s EXCEPT !["servers"] = Got(L, "servers", j), !["channels"] = none, !["members"] = none]
  <1>1. /\ s \in [Kinds -> Seq(Rows)] /\ \A k \in Kinds : Len(s[k]) <= UiCap[k]
        /\ {"servers", "channels", "members"} \subseteq Kinds
        /\ none \in Seq(Rows) /\ Len(none) = 0
      BY DEF Screens, Kinds, Collected
  <1>2. CASE Len(L) = 0
    <2> DEFINE p == F[1]
               z == [s EXCEPT !["servers"] = none]
               h == [i \in 0 .. 1 |-> IF i = 0 THEN s ELSE z]
    <2>1. Len(F) = 1 /\ 1 \in 1 .. Len(F) /\ p \in Packets
      <3>1. Len(F) = 1
          BY <1>2 DEF Carries
      <3>2. 1 \in 1 .. Len(F)
          BY <3>1
      <3>3. F[1] \in Packets
          BY <3>2
      <3> HIDE DEF h, z
      <3>4. QED
          BY <3>1, <3>2, <3>3
    <2>2. p.kind = "servers" /\ p.total = 0 /\ p.frame \in {"start", "single"} /\ p.frame # "logout"
        BY <1>2, <2>1 DEF Carries
    <2>3. FilledFrom(s, "servers", p) = none
        BY <2>2 DEF FilledFrom
    <2>4. After(s, p) = [s EXCEPT !["servers"] = none, !["channels"] = s["channels"], !["members"] = s["members"]]
        BY <1>1, <2>2, <2>3 DEF After, AfterServers
    <2>5. ServersShown(s, L) = z
        BY <1>2 DEF ServersShown
    <2> HIDE DEF none
    <2>6. After(s, p) = z
        BY <1>1, <2>4
    <2>7. z \in Screens
        BY <2>1, <2>6, AfterTyped
    <2>8. h[0] = s /\ h[1] = z
        OBVIOUS
    <2> HIDE DEF h, z
    <2>9. Reads(h, s, F)
      <3>1. \A i \in 0 .. Len(F) : i = 0 \/ i = 1
          BY <2>1
      <3>2. \A i \in 1 .. Len(F) : i = 1 /\ i - 1 = 0
          BY <2>1
      <3>3. QED
          BY <2>6, <2>7, <2>8, <3>1, <3>2 DEF Reads
    <2>10. QED
        BY <2>1, <2>5, <2>8, <2>9 DEF Leads
  <1>3. CASE Len(L) # 0
    <2> DEFINE h == [i \in 0 .. Len(L) |-> IF i = 0 THEN s ELSE At(i)]
    <2>1. /\ Len(F) = Len(L) /\ Len(L) \in Nat /\ Len(L) \in 1 .. Len(L)
          /\ \A i \in 1 .. Len(L) : i \in 1 .. Len(F) /\ F[i] \in Packets
        BY <1>3 DEF Carries
    <2>2. /\ \A i \in 0 .. Len(L) : h[i] = IF i = 0 THEN s ELSE At(i)
          /\ 0 \in 0 .. Len(L)
        BY <2>1
    <2>3. h[0] = s /\ \A i \in 1 .. Len(L) : h[i] = At(i) /\ i \in 0 .. Len(L) /\ i - 1 \in 0 .. Len(L)
        BY <2>1, <2>2
    <2>4. ServersShown(s, L) = At(Len(L))
      <3>1. Got(L, "servers", Len(L)) = Cut(L, UiCap["servers"])
          BY RowsGot, <1>1
      <3>2. QED
          BY <1>3, <3>1 DEF ServersShown
    <2> HIDE DEF h, none
    <2>5. \A i \in 1 .. Len(L) : At(i) \in Screens
      <3> TAKE i \in 1 .. Len(L)
      <3>1. Got(L, "servers", i) \in Seq(Rows) /\ Len(Got(L, "servers", i)) <= UiCap["servers"]
          BY <1>1, <2>3, RowsGot
      <3>2. /\ "servers" \in Kinds /\ "channels" \in Kinds /\ "members" \in Kinds
            /\ none \in Seq(Rows) /\ Len(none) <= UiCap["channels"] /\ Len(none) <= UiCap["members"]
        <4>1. UiCap["channels"] \in Nat /\ UiCap["members"] \in Nat
            BY ListStreamAssumption DEF Kinds, Collected
        <4>2. QED
            BY <1>1, <4>1
      <3> DEFINE g == Got(L, "servers", i)
                 a == [s EXCEPT !["servers"] = g]
                 b == [a EXCEPT !["channels"] = none]
                 z == [b EXCEPT !["members"] = none]
      <3>3. a \in Screens
        <4> HIDE DEF g
        <4>1. QED
            BY <3>1, <3>2, Redrawn DEF g
      <3>4. b \in Screens
        <4> HIDE DEF a
        <4>1. QED
            BY <3>2, <3>3, Redrawn
      <3>5. z \in Screens
        <4> HIDE DEF b
        <4>1. QED
            BY <3>2, <3>4, Redrawn
      <3>6. z = At(i)
          OBVIOUS
      <3> HIDE DEF z, At
      <3>7. QED
          BY <3>5, <3>6
    <2>6. ASSUME NEW i \in 1 .. Len(L)
          PROVE  h[i] = After(h[i - 1], F[i])
      <3> DEFINE p == F[i]
                 g == Got(L, "servers", i)
                 u == h[i - 1]
      <3>1. /\ p \in Packets /\ p.kind = "servers" /\ p.total = Len(L) /\ p.row = L[i]
            /\ p.frame \in {"start", "single"} <=> i = 1
            /\ p.frame # "logout"
          BY <2>1 DEF Carries
      <3>2. Len(g) > 0
          BY <1>1, RowsGot
      <3>3. u = IF i = 1 THEN s ELSE At(i - 1)
          BY <2>2, <2>3
      <3>4. u \in Screens
        <4>1. i # 1 => i - 1 \in 1 .. Len(L)
            OBVIOUS
        <4>2. QED
            BY <2>5, <3>3, <4>1
      <3>5. i # 1 => /\ u["servers"] = Got(L, "servers", i - 1)
                     /\ u["channels"] = none /\ u["members"] = none
          BY <1>1, <3>3
      <3>6. FilledFrom(u, "servers", p) = g
        <4> HIDE DEF p, u, g
        <4>1. QED
            BY <1>1, <3>1, <3>4, <3>5, OneRowMore DEF g
      <3>7. After(u, p) = [u EXCEPT !["servers"]  = g,
                                    !["channels"] = IF i = 1 THEN none ELSE u["channels"],
                                    !["members"]  = IF i = 1 THEN none ELSE u["members"]]
        <4>1. After(u, p) = AfterServers(u, p)
            BY <3>1 DEF After
        <4>2. g # <<>>
          <5> HIDE DEF g
          <5>1. QED
              BY <3>2
        <4>3. u \in [Kinds -> Seq(Rows)]
            BY <3>4 DEF Screens
        <4> HIDE DEF p, g, u
        <4>4. QED
            BY <1>1, <3>1, <3>6, <4>1, <4>2, <4>3 DEF AfterServers, none
      <3> HIDE DEF p, g, u
      <3>8. After(u, p) = [u EXCEPT !["servers"] = g, !["channels"] = none, !["members"] = none]
          BY <3>5, <3>7
      <3>9. [u EXCEPT !["servers"] = g, !["channels"] = none, !["members"] = none]
              = [s EXCEPT !["servers"] = g, !["channels"] = none, !["members"] = none]
          BY <1>1, <3>3
      <3>10. h[i] = [s EXCEPT !["servers"] = g, !["channels"] = none, !["members"] = none]
          BY <2>3 DEF g
      <3>11. QED
          BY <3>8, <3>9, <3>10 DEF u, p
    <2>7. Reads(h, s, F)
      <3>1. \A i \in 0 .. Len(F) : h[i] \in Screens
        <4> HIDE DEF At
        <4>1. \A i \in 0 .. Len(F) : i = 0 \/ i \in 1 .. Len(L)
            BY <2>1
        <4>2. QED
            BY <2>3, <2>5, <4>1
      <3>2. QED
          BY <2>1, <2>3, <2>6, <3>1 DEF Reads
    <2>8. h[Len(F)] = ServersShown(s, L)
        BY <2>1, <2>3, <2>4
    <2>9. QED
        BY <2>7, <2>8 DEF Leads
  <1>4. QED
      BY <1>2, <1>3

(* The screen with a list of the first server, if there is a server.       *)
SlotShown(s, k, L) ==
  IF Len(s["servers"]) = 0 THEN s ELSE [s EXCEPT ![k] = Cut(L, UiCap[k])]

LEMMA SlotRead ==
  ASSUME NEW s \in Screens, NEW k \in {"channels", "members"},
         NEW L \in Seq(Rows), NEW F \in Seq(Packets), Carries(F, k, L)
  PROVE  Leads(s, F, SlotShown(s, k, L))
  <1> DEFINE At(j) == [s EXCEPT ![k] = Got(L, k, j)]
  <1>1. /\ s \in [Kinds -> Seq(Rows)] /\ k \in Kinds /\ "servers" \in Kinds /\ k # "servers"
        /\ Len(L) \in Nat /\ Len(F) \in Nat /\ s["servers"] \in Seq(Rows)
      BY DEF Screens, Kinds, Collected
  <1>2. \A j \in 1 .. Len(F) :
          /\ F[j] \in Packets /\ F[j].kind = k /\ F[j].total = Len(L)
          /\ j \in 1 .. Len(L) => F[j].row = L[j]
          /\ F[j].frame \in {"start", "single"} <=> j = 1
          /\ F[j].frame # "logout"
      BY DEF Carries
  <1>3. \A j \in 1 .. Len(F) : \A u :
          After(u, F[j]) = IF u["servers"] = <<>> THEN u ELSE [u EXCEPT ![k] = FilledFrom(u, k, F[j])]
      BY <1>2 DEF After
  <1>4. \A j \in 0 .. Len(L) : At(j) \in Screens
    <2> TAKE j \in 0 .. Len(L)
    <2>1. Got(L, k, j) \in Seq(Rows) /\ Len(Got(L, k, j)) <= UiCap[k]
        BY <1>1, RowsGot
    <2>2. QED
        BY <1>1, <2>1, Redrawn
  <1>5. CASE s["servers"] = <<>>
    <2> DEFINE h == [i \in 0 .. Len(F) |-> s]
    <2>1. \A i \in 0 .. Len(F) : h[i] = s
        OBVIOUS
    <2> HIDE DEF h
    <2>2. \A i \in 1 .. Len(F) : h[i] = After(h[i - 1], F[i])
      <3> TAKE i \in 1 .. Len(F)
      <3>1. i \in 0 .. Len(F) /\ i - 1 \in 0 .. Len(F)
          BY <1>1
      <3>2. After(s, F[i]) = s
          BY <1>3, <1>5
      <3>3. QED
          BY <2>1, <3>1, <3>2
    <2>3. 0 \in 0 .. Len(F) /\ Len(F) \in 0 .. Len(F)
        BY <1>1
    <2>4. Reads(h, s, F) /\ h[Len(F)] = s
        BY <2>1, <2>2, <2>3 DEF Reads
    <2>5. SlotShown(s, k, L) = s
        BY <1>5 DEF SlotShown
    <2>6. QED
        BY <2>4, <2>5 DEF Leads
  <1>6. CASE s["servers"] # <<>>
    <2>1. Len(s["servers"]) # 0
      <3> DEFINE v == s["servers"]
      <3>1. v \in Seq(Rows) /\ v # <<>>
          BY <1>1, <1>6
      <3> HIDE DEF v
      <3>2. Len(v) # 0
          BY <3>1
      <3>3. QED
          BY <3>2 DEF v
    <2>2. SlotShown(s, k, L) = At(Len(L))
      <3>1. Got(L, k, Len(L)) = Cut(L, UiCap[k])
          BY <1>1, RowsGot
      <3>2. QED
          BY <2>1, <3>1 DEF SlotShown
    <2>3. CASE Len(L) = 0
      <3> DEFINE p == F[1]
                 h == [i \in 0 .. 1 |-> IF i = 0 THEN s ELSE At(0)]
      <3>1. Len(F) = 1
          BY <2>3 DEF Carries
      <3>2. 1 \in 1 .. Len(F) /\ 0 \in 0 .. Len(L)
          BY <1>1, <3>1
      <3>3. p.total = 0 /\ p.frame \in {"start", "single"}
          BY <1>2, <2>3, <3>2
      <3>4. FilledFrom(s, k, p) = <<>>
          BY <3>3 DEF FilledFrom
      <3>5. Got(L, k, 0) = <<>>
        <4> DEFINE g == Got(L, k, 0)
        <4>1. g \in Seq(Rows) /\ Len(g) = 0
            BY <1>1, <3>2, RowsGot
        <4> HIDE DEF g
        <4>2. g = <<>>
            BY <4>1
        <4>3. QED
            BY <4>2 DEF g
      <3>6. After(s, p) = At(0)
        <4> DEFINE g == Got(L, k, 0)
        <4>1. FilledFrom(s, k, p) = g
            BY <3>4, <3>5
        <4> HIDE DEF g
        <4>2. QED
            BY <1>3, <1>6, <3>2, <4>1 DEF g
      <3>7. h[0] = s /\ h[1] = At(0)
          OBVIOUS
      <3> HIDE DEF h, At
      <3>8. Reads(h, s, F)
        <4>1. \A i \in 0 .. Len(F) : i = 0 \/ i = 1
            BY <3>1
        <4>2. \A i \in 1 .. Len(F) : i = 1 /\ i - 1 = 0
            BY <3>1
        <4>3. QED
            BY <1>4, <3>2, <3>6, <3>7, <4>1, <4>2 DEF Reads
      <3>9. QED
          BY <2>2, <2>3, <3>1, <3>7, <3>8 DEF Leads
    <2>4. CASE Len(L) # 0
      <3> DEFINE h == [i \in 0 .. Len(L) |-> IF i = 0 THEN s ELSE At(i)]
      <3>1. Len(F) = Len(L) /\ Len(L) \in 1 .. Len(L) /\ \A i \in 1 .. Len(L) : i \in 1 .. Len(F)
          BY <1>1, <2>4 DEF Carries
      <3>2. /\ \A i \in 0 .. Len(L) : h[i] = IF i = 0 THEN s ELSE At(i)
            /\ 0 \in 0 .. Len(L)
          BY <3>1
      <3>3. h[0] = s /\ \A i \in 1 .. Len(L) : h[i] = At(i) /\ i \in 0 .. Len(L) /\ i - 1 \in 0 .. Len(L)
          BY <3>1, <3>2
      <3> HIDE DEF h
      <3>4. ASSUME NEW i \in 1 .. Len(L)
            PROVE  h[i] = After(h[i - 1], F[i])
        <4> DEFINE p == F[i]
                   g == Got(L, k, i)
                   u == h[i - 1]
        <4>1. /\ p \in Packets /\ p.total = Len(L) /\ p.row = L[i]
              /\ p.frame \in {"start", "single"} <=> i = 1
            BY <1>2, <3>1
        <4>2. u = IF i = 1 THEN s ELSE At(i - 1)
            BY <3>2, <3>3
        <4>3. u \in Screens
            BY <1>4, <3>3, <4>2
        <4>4. /\ i # 1 => u[k] = Got(L, k, i - 1)
              /\ u["servers"] = s["servers"]
            BY <1>1, <4>2
        <4>5. FilledFrom(u, k, p) = g
          <5> HIDE DEF p, u, g
          <5>1. QED
              BY <1>1, <4>1, <4>3, <4>4, OneRowMore DEF g
        <4>6. After(u, p) = [u EXCEPT ![k] = g]
            BY <1>3, <1>6, <3>1, <4>4, <4>5
        <4> HIDE DEF g
        <4>7. [u EXCEPT ![k] = g] = [s EXCEPT ![k] = g]
            BY <1>1, <4>2
        <4>8. h[i] = [s EXCEPT ![k] = g]
            BY <3>3 DEF g
        <4>9. QED
            BY <4>6, <4>7, <4>8
      <3> HIDE DEF At
      <3>5. \A i \in 0 .. Len(F) : h[i] \in Screens
        <4>1. \A i \in 0 .. Len(F) : i = 0 \/ i \in 1 .. Len(L)
            BY <3>1
        <4>2. QED
            BY <1>4, <3>3, <4>1
      <3>6. Reads(h, s, F)
          BY <3>1, <3>3, <3>4, <3>5 DEF Reads
      <3>7. h[Len(F)] = SlotShown(s, k, L)
          BY <2>2, <3>1, <3>3
      <3>8. QED
          BY <3>6, <3>7 DEF Leads
    <2>5. QED
        BY <2>3, <2>4
  <1>7. QED
      BY <1>5, <1>6

(* The screen with a friend list. *)
FriendsShown(s, L) == [s EXCEPT !["friends"] = Cut(L, UiCap["friends"])]

LEMMA FriendsRead ==
  ASSUME NEW s \in Screens, NEW L \in Seq(Rows), Len(L) <= MaxRows
  PROVE  Leads(s, BracketedResponse(L), FriendsShown(s, L))
  <1> DEFINE F == BracketedResponse(L)
             At(j) == [s EXCEPT !["friends"] = Got(L, "friends", j)]
             n == Len(L)
             h == [i \in 0 .. n + 2 |-> IF i = 0 THEN s ELSE IF i = n + 2 THEN At(n) ELSE At(i - 1)]
  <1>1. /\ F \in Seq(Packets) /\ Len(F) = n + 2
        /\ \A j \in 1 .. Len(F) :
             /\ F[j].kind = "friends"
             /\ F[j].frame = IF j = 1 THEN "start" ELSE IF j = n + 2 THEN "end" ELSE "middle"
             /\ j - 1 \in 1 .. n => F[j].row = L[j - 1]
      BY FriendsSent
  <1>2. n \in Nat /\ s \in [Kinds -> Seq(Rows)] /\ "friends" \in Kinds
      BY DEF Screens, Kinds
  <1> HIDE DEF F, n
  <1>3. \A j \in 0 .. n : At(j) \in Screens
    <2> TAKE j \in 0 .. n
    <2>1. Got(L, "friends", j) \in Seq(Rows) /\ Len(Got(L, "friends", j)) <= UiCap["friends"]
        BY <1>2, RowsGot DEF n
    <2>2. QED
        BY <1>2, <2>1, Redrawn
  <1>4. /\ \A i \in 0 .. n + 2 : h[i] = IF i = 0 THEN s ELSE IF i = n + 2 THEN At(n) ELSE At(i - 1)
        /\ 0 \in 0 .. n + 2 /\ n + 2 \in 0 .. n + 2 /\ n + 2 # 0
        /\ \A i \in 1 .. n + 1 : i \in 0 .. n + 2 /\ i # 0 /\ i # n + 2 /\ i - 1 \in 0 .. n
        /\ n \in 0 .. n
      BY <1>2
  <1>5. h[0] = s /\ h[n + 2] = At(n) /\ \A i \in 1 .. n + 1 : h[i] = At(i - 1)
      BY <1>4
  <1> HIDE DEF h
  <1>6. ASSUME NEW i \in 1 .. n + 2
        PROVE  h[i] = After(h[i - 1], F[i])
    <2>1. F[i].kind = "friends" /\ i \in 1 .. Len(F)
        BY <1>1
    <2>2. CASE i = 1
      <3> DEFINE g == Got(L, "friends", 0)
      <3>1. F[i].frame = "start" /\ i - 1 = 0
          BY <1>1, <2>1, <2>2
      <3>2. g = <<>>
        <4>1. g \in Seq(Rows) /\ Len(g) = 0
          <5>1. 0 \in 0 .. Len(L)
              BY <1>2 DEF n
          <5>2. QED
              BY <1>2, <5>1, RowsGot
        <4> HIDE DEF g
        <4>2. QED
            BY <4>1
      <3>3. After(s, F[i]) = [s EXCEPT !["friends"] = g]
        <4> HIDE DEF g
        <4>1. QED
            BY <2>1, <3>1, <3>2 DEF After, AfterFriends
      <3>4. h[1] = At(0)
        <4>1. 1 \in 1 .. n + 1 /\ 1 - 1 = 0
            BY <1>2
        <4>2. QED
            BY <1>5, <4>1
      <3>5. QED
          BY <1>5, <2>2, <3>1, <3>3, <3>4
    <2>3. CASE i = n + 2
      <3>1. F[i].frame = "end" /\ i - 1 \in 1 .. n + 1 /\ (i - 1) - 1 = n
          BY <1>1, <1>2, <2>1, <2>3
      <3>2. h[i - 1] = At(n) /\ h[i] = At(n)
          BY <1>5, <2>3, <3>1
      <3> DEFINE u == At(n)
      <3>3. u \in [Kinds -> Seq(Rows)]
          BY <1>3, <1>4 DEF Screens
      <3> HIDE DEF u
      <3>4. After(u, F[i]) = [u EXCEPT !["friends"] = u["friends"]]
          BY <2>1, <3>1 DEF After, AfterFriends
      <3>5. After(u, F[i]) = u
          BY <3>3, <3>4
      <3>6. QED
          BY <3>2, <3>5 DEF u
    <2>4. CASE i \in 2 .. n + 1
      <3> DEFINE j == i - 1
                 u == At(j - 1)
                 g == Got(L, "friends", j)
      <3>1. /\ j \in 1 .. n /\ j - 1 \in 0 .. n /\ i # 1 /\ i # n + 2
            /\ i \in 1 .. n + 1 /\ i - 1 \in 1 .. n + 1
          BY <1>2, <2>4
      <3>2. F[i].frame = "middle" /\ F[i].row = L[j]
          BY <1>1, <2>1, <3>1
      <3>3. h[i - 1] = u /\ h[i] = At(j)
          BY <1>5, <3>1
      <3>4. u["friends"] = Got(L, "friends", j - 1)
          BY <1>2
      <3>5. g = IF Len(u["friends"]) < UiCap["friends"] THEN Append(u["friends"], L[j]) ELSE u["friends"]
        <4>1. j \in 1 .. Len(L)
            BY <3>1 DEF n
        <4> HIDE DEF j, u
        <4>2. QED
            BY <1>2, <3>4, <4>1, RowsGot
      <3>6. [u EXCEPT !["friends"] = g] = [s EXCEPT !["friends"] = g]
        <4> HIDE DEF g
        <4>1. QED
            BY <1>2
      <3>7. After(u, F[i]) = [u EXCEPT !["friends"] = g]
        <4> HIDE DEF u, g, j
        <4>1. QED
            BY <2>1, <3>2, <3>5 DEF After, AfterFriends
      <3>8. QED
          BY <3>3, <3>6, <3>7
    <2>5. QED
        BY <1>2, <2>2, <2>3, <2>4
  <1>7. \A i \in 0 .. n + 2 : h[i] \in Screens
    <2> HIDE DEF At
    <2>1. \A i \in 0 .. n + 2 : i = 0 \/ i = n + 2 \/ i \in 1 .. n + 1
        BY <1>2
    <2>2. QED
        BY <1>3, <1>4, <1>5, <2>1
  <1>8. Reads(h, s, F)
      BY <1>1, <1>5, <1>6, <1>7 DEF Reads
  <1>9. At(n) = FriendsShown(s, L)
      BY <1>2, RowsGot DEF FriendsShown, n
  <1>10. QED
      BY <1>1, <1>5, <1>8, <1>9 DEF Leads, F

-----------------------------------------------------------------------------
(* What is due is what arrives. *)

(* The screen t is right for a session (g) to which the lists w are due.   *)
(* While none of the servers has been sent there is none on the screen.    *)
Right(t, g, w) ==
  /\ g => \A k \in Kinds : w[k] # Unsent => t[k] = w[k]
  /\ ~g \/ w["servers"] = Unsent => Len(t["servers"]) = 0

Arriving == \E t : Leads(shown, down, t) /\ Right(t, signed, due)

(* A list that was sent is told from none.                                 *)
LEMMA SentIsNotUnsent ==
  ASSUME NEW L \in Seq(Rows), \A i \in 1 .. Len(L) : L[i].at = i, NEW n \in Nat
  PROVE  Cut(L, n) # Unsent
  <1> SUFFICES ASSUME Cut(L, n) = Unsent PROVE FALSE
      OBVIOUS
  <1> DEFINE c == Cut(L, n)
             u == <<Blank>>
  <1>1. /\ c \in Seq(Rows) /\ Len(c) = IF Len(L) < n THEN Len(L) ELSE n
        /\ \A i \in 1 .. Len(c) : c[i] = L[i]
      BY Cuts
  <1>2. Len(u) = 1 /\ u[1] = Blank
      OBVIOUS
  <1>3. c = u
      BY DEF Unsent
  <1>4. Blank.at = 0
      BY DEF Blank
  <1> HIDE DEF c, u
  <1>5. 1 \in 1 .. Len(c) /\ 1 \in 1 .. Len(L)
    <2>1. Len(c) = 1
        BY <1>2, <1>3
    <2>2. Len(L) \in Nat /\ Len(L) # 0
        BY <1>1, <2>1
    <2>3. QED
        BY <2>1, <2>2
  <1>6. L[1] = Blank /\ L[1].at = 1
      BY <1>1, <1>2, <1>3, <1>5
  <1>7. QED
      BY <1>4, <1>6

LEMMA ServersDue ==
  ASSUME TypeOK, NEW t \in Screens, Right(t, signed, due), signed,
         NEW L \in Seq(Rows), \A i \in 1 .. Len(L) : L[i].at = i
  PROVE  Right(ServersShown(t, L), signed, Due("servers", L))
  <1> DEFINE z == ServersShown(t, L)
             w == Due("servers", L)
             c == Cut(L, UiCap["servers"])
             none == <<>>
  <1>1. /\ t \in [Kinds -> Seq(Rows)] /\ due \in [Kinds -> Seq(Rows)]
        /\ "servers" \in Kinds /\ "channels" \in Kinds /\ "members" \in Kinds /\ "friends" \in Kinds
        /\ UiCap["servers"] \in Nat /\ Len(L) \in Nat
        /\ \A k \in Kinds : k \in {"servers", "channels", "members", "friends"}
      BY ListStreamAssumption DEF Screens, TypeOK, Kinds, Collected
  <1>2. /\ c \in Seq(Rows) /\ Len(c) = IF Len(L) < UiCap["servers"] THEN Len(L) ELSE UiCap["servers"]
        /\ c # Unsent
      BY <1>1, Cuts, SentIsNotUnsent
  <1>3. \A k \in Kinds : due[k] # Unsent => t[k] = due[k]
      BY DEF Right
  <1>4. CASE Len(L) = 0
    <2>1. L = <<>>
        BY <1>4
    <2>2. w = [due EXCEPT !["servers"] = c, !["channels"] = due["channels"], !["members"] = due["members"]]
        BY <1>1, <2>1 DEF Due
    <2>3. z = [t EXCEPT !["servers"] = none]
        BY <1>4 DEF ServersShown
    <2>4. c = none
      <3> HIDE DEF c
      <3>1. QED
          BY <1>1, <1>2, <1>4
    <2> HIDE DEF w, z, c
    <2>5. Len(none) = 0 /\ none # Unsent
        BY <1>2, <2>4
    <2> HIDE DEF none
    <2>6. w["servers"] = none /\ \A k \in Kinds : k # "servers" => w[k] = due[k]
        BY <1>1, <2>2, <2>4
    <2>7. z["servers"] = none /\ \A k \in Kinds : k # "servers" => z[k] = t[k]
        BY <1>1, <2>3
    <2>8. QED
        BY <1>3, <2>5, <2>6, <2>7 DEF Right, z, w
  <1>5. CASE Len(L) # 0
    <2>1. L # <<>>
        BY <1>5
    <2>2. w = [due EXCEPT !["servers"] = c, !["channels"] = none, !["members"] = none]
        BY <1>1, <2>1 DEF Due
    <2>3. z = [t EXCEPT !["servers"] = c, !["channels"] = none, !["members"] = none]
        BY <1>5 DEF ServersShown
    <2> HIDE DEF w, z, c, none
    <2>4. w["servers"] = c /\ w["channels"] = none /\ w["members"] = none /\ w["friends"] = due["friends"]
        BY <1>1, <2>2
    <2>5. z["servers"] = c /\ z["channels"] = none /\ z["members"] = none /\ z["friends"] = t["friends"]
        BY <1>1, <2>3
    <2>6. ASSUME NEW k \in Kinds, w[k] # Unsent
          PROVE  z[k] = w[k]
      <3>1. CASE k = "friends"
          BY <1>1, <1>3, <2>4, <2>5, <2>6, <3>1
      <3>2. CASE k # "friends"
          BY <1>1, <2>4, <2>5, <3>2
      <3>3. QED
          BY <3>1, <3>2
    <2>7. w["servers"] # Unsent
        BY <1>2, <2>4
    <2>8. QED
        BY <2>6, <2>7 DEF Right, z, w
  <1>6. QED
      BY <1>4, <1>5

LEMMA SlotDue ==
  ASSUME TypeOK, NEW t \in Screens, Right(t, signed, due), signed,
         NEW k \in {"channels", "members"}, NEW L \in Seq(Rows)
  PROVE  Right(SlotShown(t, k, L), signed, Due(k, L))
  <1> DEFINE z == SlotShown(t, k, L)
             w == Due(k, L)
             c == Cut(L, UiCap[k])
             v == t["servers"]
             none == <<>>
  <1>1. /\ t \in [Kinds -> Seq(Rows)] /\ due \in [Kinds -> Seq(Rows)]
        /\ "servers" \in Kinds /\ k \in Kinds /\ k # "servers" /\ v \in Seq(Rows)
      BY DEF Screens, TypeOK, Kinds, Collected
  <1>2. /\ \A l \in Kinds : due[l] # Unsent => t[l] = due[l]
        /\ due["servers"] = Unsent => Len(v) = 0
      BY DEF Right
  <1>3. Len(none) = 0 /\ (Len(v) = 0 => v = none)
    <2> HIDE DEF v
    <2>1. QED
        BY <1>1
  <1>4. w = [due EXCEPT ![k] = IF due["servers"] \in {none, Unsent} THEN due[k] ELSE c]
      BY <1>1 DEF Due
  <1>5. z = IF Len(v) = 0 THEN t ELSE [t EXCEPT ![k] = c]
      BY DEF SlotShown
  <1> HIDE DEF z, w, c, none
  <1>6. Len(v) = 0 <=> due["servers"] \in {none, Unsent}
      BY <1>1, <1>2, <1>3
  <1> HIDE DEF v
  <1>7. CASE Len(v) = 0
    <2>1. w = due
        BY <1>1, <1>4, <1>6, <1>7
    <2>2. z = t
        BY <1>5, <1>7
    <2>3. QED
        BY <2>1, <2>2 DEF z, w
  <1>8. CASE Len(v) # 0
    <2>1. w = [due EXCEPT ![k] = c] /\ z = [t EXCEPT ![k] = c]
        BY <1>4, <1>5, <1>6, <1>8
    <2>2. w["servers"] = due["servers"] /\ z["servers"] = t["servers"]
        BY <1>1, <2>1
    <2>3. ASSUME NEW l \in Kinds, w[l] # Unsent
          PROVE  z[l] = w[l]
      <3>1. CASE l = k
          BY <1>1, <2>1, <3>1
      <3>2. CASE l # k
        <4>1. w[l] = due[l] /\ z[l] = t[l]
            BY <1>1, <2>1, <3>2
        <4>2. QED
            BY <1>2, <2>3, <4>1
      <3>3. QED
          BY <3>1, <3>2
    <2>4. w["servers"] = Unsent => Len(z["servers"]) = 0
        BY <1>2, <2>2 DEF v
    <2>5. QED
        BY <2>3, <2>4 DEF Right, z, w
  <1>9. QED
      BY <1>7, <1>8

LEMMA FriendsDue ==
  ASSUME TypeOK, NEW t \in Screens, Right(t, signed, due), signed, NEW L \in Seq(Rows)
  PROVE  Right(FriendsShown(t, L), signed, Due("friends", L))
  <1> DEFINE z == FriendsShown(t, L)
             w == Due("friends", L)
             c == Cut(L, UiCap["friends"])
  <1>1. /\ t \in [Kinds -> Seq(Rows)] /\ due \in [Kinds -> Seq(Rows)]
        /\ "servers" \in Kinds /\ "friends" \in Kinds
      BY DEF Screens, TypeOK, Kinds, Collected
  <1>2. /\ \A l \in Kinds : due[l] # Unsent => t[l] = due[l]
        /\ due["servers"] = Unsent => Len(t["servers"]) = 0
      BY DEF Right
  <1>3. w = [due EXCEPT !["friends"] = c] /\ z = [t EXCEPT !["friends"] = c]
      BY DEF Due, FriendsShown
  <1> HIDE DEF z, w, c
  <1>4. /\ w["friends"] = c /\ z["friends"] = c
        /\ \A l \in Kinds : l # "friends" => w[l] = due[l] /\ z[l] = t[l]
      BY <1>1, <1>3
  <1>5. ASSUME NEW l \in Kinds, w[l] # Unsent
        PROVE  z[l] = w[l]
    <2>1. CASE l = "friends"
        BY <1>4, <2>1
    <2>2. CASE l # "friends"
        BY <1>2, <1>4, <1>5, <2>2
    <2>3. QED
        BY <2>1, <2>2
  <1>6. w["servers"] = Unsent => Len(z["servers"]) = 0
      BY <1>1, <1>2, <1>4
  <1>7. QED
      BY <1>5, <1>6 DEF Right, z, w

(* Outside a session there is no server on the screen: the notice takes    *)
(* them away, and a refusal brings none.                                   *)
LEMMA NoServers ==
  ASSUME NEW t \in Screens
  PROVE  /\ Len(After(t, EndNotice)["servers"]) = 0
         /\ \A k \in Kinds : Len(t["servers"]) = 0 => Len(After(t, ErrorFrame(k))["servers"]) = 0
  <1> DEFINE none == <<>>
  <1>1. t \in [Kinds -> Seq(Rows)] /\ "servers" \in Kinds /\ "friends" \in Kinds /\ Len(none) = 0
      BY DEF Screens, Kinds, Collected
  <1>2. Len(After(t, EndNotice)["servers"]) = 0
    <2>1. EndNotice.frame = "logout"
        BY SingleFrames
    <2>2. After(t, EndNotice) = [t EXCEPT !["servers"] = none, !["friends"] = none]
        BY <2>1 DEF After
    <2> HIDE DEF none
    <2>3. After(t, EndNotice)["servers"] = none
        BY <1>1, <2>2
    <2>4. QED
        BY <1>1, <2>3
  <1>3. ASSUME NEW k \in Kinds, Len(t["servers"]) = 0
        PROVE  Len(After(t, ErrorFrame(k))["servers"]) = 0
    <2> DEFINE p == ErrorFrame(k)
    <2>1. p.kind = k /\ p.frame = "single" /\ p.total = 0
        BY SingleFrames
    <2> HIDE DEF p
    <2>2. CASE k = "servers"
      <3>1. FilledFrom(t, "servers", p) = none
          BY <2>1 DEF FilledFrom
      <3>2. After(t, p)["servers"] = none
          BY <1>1, <2>1, <2>2, <3>1 DEF After, AfterServers
      <3> HIDE DEF none
      <3>3. QED
          BY <1>1, <3>2 DEF p
    <2>3. CASE k = "friends"
      <3>1. After(t, p)["servers"] = t["servers"]
          BY <1>1, <2>1, <2>3 DEF After, AfterFriends
      <3>2. QED
          BY <1>3, <3>1 DEF p
    <2>4. CASE k \in {"channels", "members"}
      <3>1. After(t, p)["servers"] = t["servers"]
          BY <1>1, <2>1, <2>4 DEF After
      <3>2. QED
          BY <1>3, <3>1 DEF p
    <2>5. QED
        BY <2>2, <2>3, <2>4 DEF Kinds, Collected
  <1>4. QED
      BY <1>2, <1>3

LEMMA ArrivingKept ==
  ASSUME TypeOK, Arriving, [Next]_vars
  PROVE  Arriving'
  <1>1. PICK t : Leads(shown, down, t) /\ Right(t, signed, due)
      BY DEF Arriving
  <1>2. t \in Screens /\ down \in Seq(Packets)
      BY <1>1, LeadsTyped DEF TypeOK
  <1>3. SUFFICES \E u : Leads(shown', down', u) /\ Right(u, signed', due')
      BY DEF Arriving
  <1>4. ASSUME NEW k \in Collected, NEW L \in Seq(Rows), \A i \in 1 .. Len(L) : L[i].at = i,
               NEW F \in Seq(Packets), Carries(F, k, L), signed,
               down' = down \o F, due' = Due(k, L), signed' = signed, shown' = shown
        PROVE  \E u : Leads(shown', down', u) /\ Right(u, signed', due')
    <2>1. CASE k = "servers"
      <3>1. Leads(t, F, ServersShown(t, L))
          BY <1>2, <1>4, <2>1, ServersRead
      <3>2. Leads(shown, down \o F, ServersShown(t, L))
          BY <1>1, <1>2, <3>1, ReadOn
      <3>3. Right(ServersShown(t, L), signed, Due("servers", L))
          BY <1>1, <1>2, <1>4, ServersDue
      <3>4. QED
          BY <1>4, <2>1, <3>2, <3>3
    <2>2. CASE k \in {"channels", "members"}
      <3>1. Leads(t, F, SlotShown(t, k, L))
          BY <1>2, <1>4, <2>2, SlotRead
      <3>2. Leads(shown, down \o F, SlotShown(t, k, L))
          BY <1>1, <1>2, <3>1, ReadOn
      <3>3. Right(SlotShown(t, k, L), signed, Due(k, L))
          BY <1>1, <1>2, <1>4, <2>2, SlotDue
      <3>4. QED
          BY <1>4, <3>2, <3>3
    <2>3. QED
        BY <2>1, <2>2 DEF Collected
  <1>4a. CASE \E k \in Collected : StreamCollected(k)
    <2>1. PICK k \in Collected : StreamCollected(k)
        BY <1>4a
    <2>2. PICK L \in Seq(Rows), m \in 0 .. MaxRows :
            /\ Len(L) <= AccCap[k]
            /\ \A i \in 1 .. Len(L) : L[i].at = i
            /\ down' = down \o ListResponse(k, L, m, AllocateListId)
            /\ due' = Due(k, L)
            /\ signed /\ signed' = signed /\ shown' = shown
        BY <2>1, ListGoesOut
    <2> DEFINE F == ListResponse(k, L, m, AllocateListId)
    <2>3. F \in Seq(Packets) /\ Carries(F, k, L)
        BY <2>2, ListCarried, Allocated
    <2>4. down' = down \o F
        BY <2>2
    <2> HIDE DEF F
    <2>5. QED
        BY <1>4, <2>2, <2>3, <2>4
  <1>4b. CASE \E k \in Collected : FailedQuery(k)
    <2> DEFINE none == <<>>
    <2>1. PICK k \in Collected : FailedQuery(k)
        BY <1>4b
    <2> DEFINE F == <<ErrorFrame(k)>>
    <2>2. F \in Seq(Packets) /\ none \in Seq(Rows) /\ Len(none) = 0 /\ Carries(F, k, none)
        BY ErrorCarried
    <2>3. /\ down' = Append(down, ErrorFrame(k)) /\ due' = Due(k, none)
          /\ signed /\ signed' = signed /\ shown' = shown
        BY <2>1 DEF FailedQuery
    <2>4. ErrorFrame(k) \in Packets
        BY SingleFrames DEF Kinds
    <2>5. down' = down \o F
        BY <1>2, <2>3, <2>4, AppendIsConcat
    <2> HIDE DEF F, none
    <2>6. \A i \in 1 .. Len(none) : none[i].at = i
        BY <2>2
    <2>7. QED
        BY <1>4, <2>2, <2>3, <2>5, <2>6
  <1>5. CASE StreamFriends
    <2>1. PICK L \in Seq(Rows) :
            /\ Len(L) <= MaxRows
            /\ down' = down \o BracketedResponse(L)
            /\ due' = Due("friends", L)
            /\ signed /\ signed' = signed /\ shown' = shown
        BY <1>5, FriendsGoOut
    <2> DEFINE F == BracketedResponse(L)
    <2>2. F \in Seq(Packets) /\ Leads(t, F, FriendsShown(t, L))
        BY <1>2, <2>1, FriendsSent, FriendsRead
    <2>3. down' = down \o F
        BY <2>1
    <2> HIDE DEF F
    <2>4. Leads(shown, down \o F, FriendsShown(t, L))
        BY <1>1, <1>2, <2>2, ReadOn
    <2>5. Right(FriendsShown(t, L), signed, Due("friends", L))
        BY <1>1, <1>2, <2>1, FriendsDue
    <2>6. QED
        BY <2>1, <2>3, <2>4, <2>5
  <1>6. CASE SignOut
    <2>1. down' = Append(down, EndNotice) /\ signed' = FALSE /\ shown' = shown
        BY <1>6 DEF SignOut, EndNotice
    <2> DEFINE u == After(t, EndNotice)
    <2>2. Leads(shown, Append(down, EndNotice), u)
        BY <1>1, <1>2, SingleFrames, ReadOne
    <2>3. Len(u["servers"]) = 0
        BY <1>2, NoServers
    <2> HIDE DEF u
    <2>4. Right(u, signed', due')
        BY <2>1, <2>3 DEF Right
    <2>5. QED
        BY <2>1, <2>2, <2>4
  <1>7. CASE \E k \in Kinds : Refuse(k)
    <2>1. PICK k \in Kinds :
            ~signed /\ down' = Append(down, ErrorFrame(k)) /\ signed' = signed /\ shown' = shown
        BY <1>7 DEF Refuse
    <2> DEFINE u == After(t, ErrorFrame(k))
    <2>2. Leads(shown, Append(down, ErrorFrame(k)), u)
        BY <1>1, <1>2, <2>1, SingleFrames, ReadOne
    <2>3. Len(t["servers"]) = 0
        BY <1>1, <2>1 DEF Right
    <2>4. Len(u["servers"]) = 0
        BY <1>2, <2>3, NoServers
    <2> HIDE DEF u
    <2>5. Right(u, signed', due')
        BY <2>1, <2>4 DEF Right
    <2>6. QED
        BY <2>1, <2>2, <2>5
  <1>8. CASE SignIn
    <2>1. ~signed /\ due' = [k \in Kinds |-> Unsent] /\ UNCHANGED <<down, shown>>
        BY <1>8 DEF SignIn
    <2>2. Len(t["servers"]) = 0
        BY <1>1, <2>1 DEF Right
    <2>3. Right(t, signed', due')
      <3> HIDE DEF Unsent
      <3>1. \A k \in Kinds : due'[k] = Unsent
          BY <2>1
      <3>2. QED
          BY <2>2, <3>1 DEF Right
    <2>4. QED
        BY <1>1, <2>1, <2>3
  <1>9. CASE Receive
    <2>1. /\ down # <<>> /\ down' = Tail(down) /\ shown' = After(shown, Head(down))
          /\ signed' = signed /\ due' = due
        BY <1>9, Received
    <2>2. Leads(After(shown, Head(down)), Tail(down), t)
        BY <1>1, <1>2, <2>1, ReadFirst
    <2>3. QED
        BY <1>1, <2>1, <2>2
  <1>10. CASE Kick \/ UNCHANGED vars
    <2>1. UNCHANGED <<shown, down, signed, due>>
        BY <1>10 DEF Kick, vars
    <2>2. QED
        BY <1>1, <2>1
  <1>11. QED
      BY <1>4a, <1>4b, <1>5, <1>6, <1>7, <1>8, <1>9, <1>10 DEF Next, Receive

(* Once its frames are read, a list is on the screen as it was sent, up to *)
(* what the arrays hold (ListsArriveWhole), and none after a failed query, *)
(* for any sizes of the arrays,                                            *)
(* any lengths of the lists and any number of frames under way.            *)
THEOREM ListsArrive == Spec => []ListsArriveWhole
  <1>1. Init /\ TypeOK => Arriving
    <2> SUFFICES ASSUME Init, TypeOK PROVE Arriving
        OBVIOUS
    <2>1. Len(down) = 0 /\ Len(shown["servers"]) = 0
        BY DEF Init, Kinds, Collected
    <2>2. shown \in Screens /\ down \in Seq(Packets)
        BY DEF TypeOK, Screens
    <2>3. Leads(shown, down, shown)
        BY <2>1, <2>2, ReadNone
    <2>4. \A k \in Kinds : due[k] = Unsent
      <3> HIDE DEF Unsent
      <3>1. QED
          BY DEF Init
    <2>5. Right(shown, signed, due)
      <3> HIDE DEF Unsent
      <3>1. QED
          BY <2>1, <2>4 DEF Right
    <2>6. QED
        BY <2>3, <2>5 DEF Arriving
  <1>2. TypeOK /\ Arriving /\ [Next]_vars => Arriving'
      BY ArrivingKept
  <1>3. TypeOK /\ Arriving => ListsArriveWhole
    <2> SUFFICES ASSUME TypeOK, Arriving, signed, down = <<>>
                 PROVE  \A k \in Kinds : due[k] # Unsent => shown[k] = due[k]
        BY DEF ListsArriveWhole
    <2>1. PICK t : Leads(shown, down, t) /\ Right(t, signed, due)
        BY DEF Arriving
    <2>2. down \in Seq(Packets) /\ Len(down) = 0
        BY DEF TypeOK
    <2>3. t = shown
        BY <2>1, <2>2, ReadNone
    <2>4. QED
        BY <2>1, <2>3 DEF Right
  <1>4. QED
      BY <1>1, <1>2, <1>3, Typing, PTL DEF Spec
=============================================================================
