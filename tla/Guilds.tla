-------------------------------- MODULE Guilds --------------------------------
(***************************************************************************)
(* The servers of Tizcord as its database keeps them ("guilds" here, as    *)
(* "server" is also the process): the tables servers, server_members,      *)
(* channels and messages, and the requests that change them.               *)
(*                                                                         *)
(* Row ids are SQLite rowids without AUTOINCREMENT: a new row takes the    *)
(* largest id in its table plus one, so the id of a deleted last row is    *)
(* used again.  A request is one action; creating a server is two          *)
(* committed statements, and what is left when the second does not happen  *)
(* (it fails, or the process dies in between) is an outcome of its own.    *)
(***************************************************************************)
EXTENDS Accounts, Integers

CONSTANTS
  Names,         \* names of servers and of channels
  NoName,        \* marks an id without a row
  MaxServerId,   \* bound on the ids of servers
  MaxChannelId   \* bound on the ids of channels

ASSUME GuildsAssumption ==
  /\ NoName \notin Names
  /\ MaxServerId \in Nat
  /\ MaxChannelId \in Nat

ServerIds == 1 .. MaxServerId
ChannelIds == 1 .. MaxChannelId

VARIABLES
  server,    \* servers.name by id, NoName where there is no row
  role,      \* server_members: per server and user, "none" without a row
  channel,   \* channels: server and name by id
  posts      \* messages: the (channel, author) pairs with a stored message

guildVars == <<server, role, channel, posts>>

Roles == {"none", "member", "admin"}
NoChannel == [server |-> 0, name |-> NoName]

GuildsTypeOK ==
  /\ server \in [ServerIds -> Names \cup {NoName}]
  /\ role \in [ServerIds -> [Users -> Roles]]
  /\ channel \in [ChannelIds -> [server : ServerIds, name : Names] \cup {NoChannel}]
  /\ posts \in SUBSET (ChannelIds \X Users)

ServerRows == {s \in ServerIds : server[s] # NoName}
ChannelRows == {c \in ChannelIds : channel[c] # NoChannel}
ChannelsOf(s) == {c \in ChannelRows : channel[c].server = s}

(* The rowid SQLite gives to a row inserted in a table with these ids. *)
IsNextRowid(id, rows) ==
  /\ \A other \in rows : other < id
  /\ id = 1 \/ id - 1 \in rows

(* Mutant: the row is found, its flag is not read. *)
IsMember(u, s) == u \in Users /\ s \in ServerIds /\ role[s][u] # "none"

(* db_user_is_server_admin, as its callers use it: a member row, with the  *)
(* flag.  A request without a login asks for user id 0, who has no rows.   *)
IsAdmin(u, s) == u \in Users /\ s \in ServerIds /\ role[s][u] = "admin"

-----------------------------------------------------------------------------
GuildsInit ==
  /\ server = [s \in ServerIds |-> NoName]
  /\ role = [s \in ServerIds |-> [u \in Users |-> "none"]]
  /\ channel = [c \in ChannelIds |-> NoChannel]
  /\ posts = {}

(* The first statement of db_create_server; the name is UNIQUE. *)
InsertServer(n, s) ==
  /\ \A other \in ServerIds : server[other] # n
  /\ IsNextRowid(s, ServerRows)
  /\ server' = [server EXCEPT ![s] = n]

(* db_create_server: the row, then the creator as its admin member. *)
CreateServer(u, n, s) ==
  /\ InsertServer(n, s)
  /\ role' = [role EXCEPT ![s][u] = "admin"]
  /\ UNCHANGED <<channel, posts>>

(* db_create_server whose second statement did not happen. *)
CreateServerHalf(n, s) ==
  /\ InsertServer(n, s)
  /\ UNCHANGED <<role, channel, posts>>

(* Mutant: whoever joins is an admin. *)
JoinAsAdmin(u, s) ==
  /\ s \in ServerRows
  /\ role[s][u] = "none"
  /\ role' = [role EXCEPT ![s][u] = "admin"]
  /\ UNCHANGED <<server, channel, posts>>

(* db_join_server: the foreign key needs the server, UNIQUE a new member. *)
JoinServer(u, s) ==
  /\ s \in ServerRows
  /\ role[s][u] = "none"
  /\ role' = [role EXCEPT ![s][u] = "member"]
  /\ UNCHANGED <<server, channel, posts>>

(* db_leave_server succeeds whether or not there is a row to delete. *)
LeaveServer(u, s) ==
  /\ role' = [role EXCEPT ![s][u] = "none"]
  /\ UNCHANGED <<server, channel, posts>>

(* db_kick_server_member for an admin, of any member: themselves included. *)
KickMember(u, s, target) ==
  /\ IsAdmin(u, s)
  /\ role[s][target] # "none"
  /\ role' = [role EXCEPT ![s][target] = "none"]
  /\ UNCHANGED <<server, channel, posts>>

(* Mutant: foreign keys are not enforced, nothing cascades. *)
DeleteServerRow(u, s) ==
  /\ IsAdmin(u, s)
  /\ server' = [server EXCEPT ![s] = NoName]
  /\ UNCHANGED <<role, channel, posts>>

(* db_delete_server for an admin: ON DELETE CASCADE removes the members,   *)
(* the channels, and with the channels their messages.                     *)
DeleteServer(u, s) ==
  /\ IsAdmin(u, s)
  /\ server' = [server EXCEPT ![s] = NoName]
  /\ role' = [role EXCEPT ![s] = [v \in Users |-> "none"]]
  /\ channel' = [c \in ChannelIds |-> IF c \in ChannelsOf(s) THEN NoChannel ELSE channel[c]]
  /\ posts' = {p \in posts : p[1] \notin ChannelsOf(s)}

(* CHANNEL_CREATE by an admin; the name is UNIQUE within the server. *)
CreateChannel(u, s, n, c) ==
  /\ IsAdmin(u, s)
  /\ \A other \in ChannelsOf(s) : channel[other].name # n
  /\ IsNextRowid(c, ChannelRows)
  /\ channel' = [channel EXCEPT ![c] = [server |-> s, name |-> n]]
  /\ UNCHANGED <<server, role, posts>>

(* Mutant: the messages of the row stay. *)
DeleteChannelRow(u, c) ==
  /\ c \in ChannelRows
  /\ IsAdmin(u, channel[c].server)
  /\ channel' = [channel EXCEPT ![c] = NoChannel]
  /\ UNCHANGED <<server, role, posts>>

(* CHANNEL_DELETE by an admin of the server the channel row names. *)
DeleteChannel(u, c) ==
  /\ c \in ChannelRows
  /\ IsAdmin(u, channel[c].server)
  /\ channel' = [channel EXCEPT ![c] = NoChannel]
  /\ posts' = {p \in posts : p[1] # c}
  /\ UNCHANGED <<server, role>>

(* db_save_message: any user, member or not, to any channel with a row.    *)
(* Without a login or a channel the foreign keys refuse the row.           *)
SaveMessage(u, c) ==
  /\ u \in Users
  /\ c \in ChannelRows
  /\ posts' = posts \cup {<<c, u>>}
  /\ UNCHANGED <<server, role, channel>>

GuildsNext ==
  \/ \E u \in Users, n \in Names, s \in ServerIds : CreateServer(u, n, s)
  \/ \E n \in Names, s \in ServerIds : CreateServerHalf(n, s)
  \/ \E u \in Users, s \in ServerIds : JoinServer(u, s)
  \/ \E u \in Users, s \in ServerIds : LeaveServer(u, s)
  \/ \E u, t \in Users, s \in ServerIds : KickMember(u, s, t)
  \/ \E u \in Users, s \in ServerIds : DeleteServer(u, s)
  \/ \E u \in Users \cup {NoUser}, s \in ServerIds, n \in Names, c \in ChannelIds :
       CreateChannel(u, s, n, c)
  \/ \E u \in Users \cup {NoUser}, c \in ChannelIds : DeleteChannel(u, c)
  \/ \E u \in Users \cup {NoUser}, c \in ChannelIds : SaveMessage(u, c)

GuildsSpec == GuildsInit /\ [][GuildsNext]_guildVars

-----------------------------------------------------------------------------
(* Properties. *)

(* Every row a delete should have taken with it is gone: members and       *)
(* channels have a server, messages a channel, through any order of        *)
(* deletes, re-creations and half-made servers.                            *)
NoOrphans ==
  /\ \A s \in ServerIds : s \notin ServerRows => \A u \in Users : role[s][u] = "none"
  /\ \A c \in ChannelRows : channel[c].server \in ServerRows
  /\ \A p \in posts : p[1] \in ChannelRows

(* The UNIQUE name of a server, and of a channel within its server, holds  *)
(* across deletes and the reuse of ids.                                    *)
NamesAreUnique ==
  /\ \A s, t \in ServerRows : server[s] = server[t] => s = t
  /\ \A c, d \in ChannelRows : channel[c] = channel[d] => c = d

(* A server has at most one admin, its creator: no sequence of joins,      *)
(* leaves and kicks makes a second one.                                    *)
OneAdmin ==
  \A s \in ServerIds, u, v \in Users :
    role[s][u] = "admin" /\ role[s][v] = "admin" => u = v

(* An id that is used again brings nothing back: when a server row appears *)
(* it has no channels and at most its creator as a member, and when a      *)
(* channel row appears it has no messages.                                 *)
ReusedIdIsClean ==
  [][/\ \A s \in ServerIds :
          server[s] = NoName /\ server'[s] # NoName
            => /\ \A c \in ChannelIds : channel'[c].server # s
               /\ \A u \in Users : role'[s][u] # "member"
     /\ \A c \in ChannelIds :
          channel[c] = NoChannel /\ channel'[c] # NoChannel
            => \A p \in posts' : p[1] # c]_guildVars

(* A server without an admin: its creator left, kicked themselves, or the  *)
(* second statement of db_create_server did not happen.                    *)
Ownerless(s) == s \in ServerRows /\ \A u \in Users : role[s][u] # "admin"

(* A server that has lost its admin is out of everyone's reach for good:   *)
(* nobody becomes its admin, deletes it (its name stays taken) or changes  *)
(* its channels.                                                           *)
OwnerlessForGood ==
  [][\A s \in ServerIds :
       Ownerless(s) => /\ Ownerless(s)'
                       /\ server'[s] = server[s]
                       /\ \A c \in ChannelIds :
                            (channel[c].server = s \/ channel'[c].server = s)
                              => channel'[c] = channel[c]]_guildVars
=============================================================================
