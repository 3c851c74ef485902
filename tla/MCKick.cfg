SPECIFICATION MembersSpec
CONSTANTS
  Fds = {f1, f2, f3}
  Users = {u1, u2}
  NoUser = NoUser
  Texts = {blank}
  NoText = blank
  MaxClients = 3
  Names = {n1}
  NoName = NoName
  MaxServerId = 1
  MaxChannelId = 0
SYMMETRY Symmetry

PROPERTY KickDisconnects
VIEW Seen
