----------------------------- MODULE MemberLists -----------------------------
(***************************************************************************)
(* The member lists the server pushes: the composition of the client table *)
(* (Sessions) with the servers in the database (Guilds).                   *)
(*                                                                         *)
(* A client that asks for the members of a server becomes a viewer of it   *)
(* (current_server_index) and is sent the list again whenever a handler    *)
(* calls notify_server_member_list.  Which handlers do, and which change   *)
(* the list and do not, is what this module is about.  Channels, messages  *)
(* and status texts play no part: their requests are left to Guilds and    *)
(* Sessions.                                                               *)
(***************************************************************************)
EXTENDS Accounts, Integers, FiniteSets

CONSTANTS Fds, Texts, NoText, MaxClients,
          Names, NoName, MaxServerId, MaxChannelId

(* What the two components assume of their constants. *)
ASSUME MemberListsAssumption ==
  /\ IsFiniteSet(Fds)
  /\ NoText \in Texts
  /\ MaxClients \in Nat \ {0}
  /\ NoName \notin Names
  /\ MaxServerId \in Nat
  /\ MaxChannelId \in Nat

VARIABLES accounts, status, open, client, userList, told,
          server, role, channel, posts,
          viewing,      \* ClientNode.current_server_index, 0 for -1
          memberList    \* per descriptor, the last member list it was sent

S == INSTANCE Sessions
G == INSTANCE Guilds

sessionVars == <<accounts, status, open, client, userList, told>>
guildVars == <<server, role, channel, posts>>
memberVars == <<accounts, status, open, client, userList, told,
          server, role, channel, posts, viewing, memberList>>

ServerIds == G!ServerIds
NoServer == 0

NotMember == [member |-> FALSE, admin |-> FALSE, online |-> FALSE]
NoMembers == [u \in Users |-> NotMember]

MembersTypeOK ==
  /\ S!TypeOK
  /\ G!GuildsTypeOK
  /\ viewing \in [Fds -> ServerIds \cup {NoServer}]
  /\ memberList \in [Fds -> [Users -> [member : BOOLEAN, admin : BOOLEAN, online : BOOLEAN]]]
  /\ \A f \in Fds \ open : viewing[f] = NoServer /\ memberList[f] = NoMembers

-----------------------------------------------------------------------------
(* The rows of one LIST_MEMBERS answer for s: the members in R, with the   *)
(* admin flag and their presence in the client table O, C.                 *)
MemberRows(R, O, C, s) ==
  [u \in Users |->
     IF R[s][u] = "none" THEN NotMember
     ELSE [member |-> TRUE, admin |-> R[s][u] = "admin", online |-> S!ClientIsOnline(O, C, u)]]

(* notify_server_member_list for each of the servers in SS: what the peers *)
(* have once every viewer in the table O, C was sent the rows.             *)
NotifyMemberLists(SS, R, O, C, V) ==
  [f \in Fds |->
     IF f \in O /\ C[f].auth /\ V[f] \in SS THEN MemberRows(R, O, C, V[f])
     ELSE IF f \in O THEN memberList[f]
     ELSE NoMembers]

(* The servers db_list_joined_servers finds for u. *)
JoinedServers(u) == {s \in ServerIds : u \in Users /\ role[s][u] # "none"}

-----------------------------------------------------------------------------
MembersInit ==
  /\ S!Init
  /\ G!GuildsInit
  /\ viewing = [f \in Fds |-> NoServer]
  /\ memberList = [f \in Fds |-> NoMembers]

HandleNewConnection(fd) ==
  /\ S!HandleNewConnection(fd)
  /\ viewing' = [viewing EXCEPT ![fd] = NoServer]
  /\ memberList' = [memberList EXCEPT ![fd] = NoMembers]
  /\ UNCHANGED guildVars

(* The viewers of the lost user's servers are sent the lists without them. *)
Disconnect(fd) ==
  /\ S!Disconnect(fd)
  /\ viewing' = [viewing EXCEPT ![fd] = NoServer]
  /\ memberList' = IF client[fd].auth
                     THEN NotifyMemberLists(JoinedServers(client[fd].id), role,
                                            open \ {fd}, S!Cleared(fd),
                                            [viewing EXCEPT ![fd] = NoServer])
                     ELSE [memberList EXCEPT ![fd] = NoMembers]
  /\ UNCHANGED guildVars

(* No member list is sent, not even when fd stops being another user. *)
RegisterAccount(fd, u) ==
  /\ S!RegisterAccount(fd, u)
  /\ UNCHANGED <<viewing, memberList>>
  /\ UNCHANGED guildVars

(* The clients whose login is revoked stop viewing; fd goes on viewing     *)
(* what it viewed.  The lists of the new user's servers are sent, not      *)
(* those of the user fd was before.                                        *)
LoginAccount(fd, u) ==
  LET V == [f \in Fds |-> IF f \in S!RevokedBy(fd, u) THEN NoServer ELSE viewing[f]]
  IN  /\ S!LoginAccount(fd, u)
      /\ viewing' = V
      /\ memberList' = NotifyMemberLists(JoinedServers(u), role, open, S!LoggedIn(fd, u), V)
      /\ UNCHANGED guildVars

(* Mutant: a logout leaves current_server_index. *)
LogoutViewing(fd) ==
  /\ S!LogoutAccount(fd)
  /\ memberList' = NotifyMemberLists(JoinedServers(client[fd].id), role,
                                     open, S!Cleared(fd), viewing)
  /\ UNCHANGED viewing
  /\ UNCHANGED guildVars

(* logout_account: fd views nothing, the viewers of the user's servers are *)
(* sent the lists.                                                         *)
LogoutAccount(fd) ==
  LET V == [viewing EXCEPT ![fd] = NoServer]
  IN  /\ S!LogoutAccount(fd)
      /\ viewing' = V
      /\ memberList' = NotifyMemberLists(JoinedServers(client[fd].id), role,
                                         open, S!Cleared(fd), V)
      /\ UNCHANGED guildVars

Restart ==
  /\ S!Restart
  /\ viewing' = [f \in Fds |-> NoServer]
  /\ memberList' = [f \in Fds |-> NoMembers]
  /\ UNCHANGED guildVars

(* list_members: fd views s from now on, whether s exists or not and       *)
(* whether fd's user is a member or not.                                   *)
ListMembers(fd, s) ==
  /\ fd \in open
  /\ client[fd].auth
  /\ viewing' = [viewing EXCEPT ![fd] = s]
  /\ memberList' = [memberList EXCEPT ![fd] = MemberRows(role, open, client, s)]
  /\ UNCHANGED sessionVars
  /\ UNCHANGED guildVars

(* join_tizcord_server: the viewers of s are sent the list. *)
JoinServer(fd, s) ==
  /\ fd \in open
  /\ client[fd].auth
  /\ G!JoinServer(client[fd].id, s)
  /\ memberList' = NotifyMemberLists({s}, [role EXCEPT ![s][client[fd].id] = "member"],
                                     open, client, viewing)
  /\ UNCHANGED viewing
  /\ UNCHANGED sessionVars

(* Mutant: the list is read before the row is deleted. *)
LeaveServerLate(fd, s) ==
  LET V == IF viewing[fd] = s THEN [viewing EXCEPT ![fd] = NoServer] ELSE viewing
  IN  /\ fd \in open
      /\ client[fd].auth
      /\ G!LeaveServer(client[fd].id, s)
      /\ viewing' = V
      /\ memberList' = NotifyMemberLists({s}, role, open, client, V)
      /\ UNCHANGED sessionVars

(* leave_tizcord_server: fd stops viewing s, the other viewers are sent    *)
(* the list.                                                               *)
LeaveServer(fd, s) ==
  LET V == IF viewing[fd] = s THEN [viewing EXCEPT ![fd] = NoServer] ELSE viewing
  IN  /\ fd \in open
      /\ client[fd].auth
      /\ G!LeaveServer(client[fd].id, s)
      /\ viewing' = V
      /\ memberList' = NotifyMemberLists({s}, [role EXCEPT ![s][client[fd].id] = "none"],
                                         open, client, V)
      /\ UNCHANGED sessionVars

(* create_tizcord_server, delete_tizcord_server and kick_server_member     *)
(* answer the client that asked, and send no member list.                  *)
CreateServer(fd, n, s) ==
  /\ fd \in open
  /\ client[fd].auth
  /\ G!CreateServer(client[fd].id, n, s) \/ G!CreateServerHalf(n, s)
  /\ UNCHANGED <<viewing, memberList>>
  /\ UNCHANGED sessionVars

DeleteServer(fd, s) ==
  /\ fd \in open
  /\ client[fd].auth
  /\ G!DeleteServer(client[fd].id, s)
  /\ UNCHANGED <<viewing, memberList>>
  /\ UNCHANGED sessionVars

KickServerMember(fd, s, target) ==
  /\ fd \in open
  /\ client[fd].auth
  /\ G!KickMember(client[fd].id, s, target)
  /\ UNCHANGED <<viewing, memberList>>
  /\ UNCHANGED sessionVars

MembersNext ==
  \/ \E fd \in Fds : HandleNewConnection(fd)
  \/ \E fd \in Fds : Disconnect(fd)
  \/ \E fd \in Fds, u \in Users : RegisterAccount(fd, u)
  \/ \E fd \in Fds, u \in Users : LoginAccount(fd, u)
  \/ \E fd \in Fds : LogoutAccount(fd)
  \/ Restart
  \/ \E fd \in Fds, s \in ServerIds : ListMembers(fd, s)
  \/ \E fd \in Fds, s \in ServerIds : JoinServer(fd, s)
  \/ \E fd \in Fds, s \in ServerIds : LeaveServer(fd, s)
  \/ \E fd \in Fds, n \in Names, s \in ServerIds : CreateServer(fd, n, s)
  \/ \E fd \in Fds, s \in ServerIds : DeleteServer(fd, s)
  \/ \E fd \in Fds, s \in ServerIds, t \in Users : KickServerMember(fd, s, t)

MembersSpec == MembersInit /\ [][MembersNext]_memberVars

-----------------------------------------------------------------------------
(* Properties. *)

(* The viewers of s have the members of s as they are. *)
MembersFresh(s) ==
  \A f \in open :
    client[f].auth /\ viewing[f] = s => memberList[f] = MemberRows(role, open, client, s)

(* A socket that changes from one account to another without a logout. *)
SwitchesAccount(fd) ==
  /\ client[fd].auth
  /\ client'[fd].auth
  /\ client'[fd].id # client[fd].id

(* The member list of a server goes stale on a viewer's screen only when a *)
(* member is kicked, the server is deleted or created anew, or a member's  *)
(* socket logs in as someone else: every join, leave, login, takeover,     *)
(* logout, loss of a connection and change of view keeps it fresh.         *)
StaleOnlyUnannounced ==
  [][\A s \in ServerIds :
       MembersFresh(s) /\ ~MembersFresh(s)'
         => \/ \E fd \in Fds, u \in Users : KickServerMember(fd, s, u)
            \/ \E fd \in Fds : DeleteServer(fd, s)
            \/ server[s] = NoName /\ server'[s] # NoName
            \/ \E fd \in Fds : SwitchesAccount(fd) /\ role[s][client[fd].id] # "none"]_memberVars

(* A client that is not logged in views no server, so nothing is pushed to *)
(* whoever logs in on its socket next before they ask.                     *)
OnlySessionsView == \A f \in Fds : viewing[f] # NoServer => client[f].auth

(* README.md:113 has /kick "forcibly disconnect and remove a user from the *)
(* active server": once somebody else has kicked them, no client of the    *)
(* user views the server any more.                                         *)
KickDisconnects ==
  [][\A fd \in Fds, s \in ServerIds, u \in Users :
       KickServerMember(fd, s, u) /\ u # client[fd].id
         => \A f \in open' : client'[f].id = u => viewing'[f] # s]_memberVars
=============================================================================
