SPECIFICATION FriendsSpec
CONSTANTS
  Users = {u1, u2, u3}
  NoUser = NoUser
SYMMETRY Symmetry
INVARIANTS FriendsTypeOK OneRowPerPair
PROPERTIES StaleOnlyByOwnRequest FriendsByConsent ImplementsFriendship
