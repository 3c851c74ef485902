SPECIFICATION GuildsSpec
CONSTANTS
  Users = {u1, u2, u3}
  NoUser = NoUser
  Names = {n1, n2}
  NoName = NoName
  MaxServerId = 2
  MaxChannelId = 2
SYMMETRY Symmetry
INVARIANTS NoOrphans OneAdmin
PROPERTIES ReusedIdIsClean OwnerlessForGood
