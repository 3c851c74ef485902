SPECIFICATION Spec
CONSTANTS
  Users = {u1, u2}
  None = None
  MaxFriends = 2
  MaxRequests = 2
  MaxLive = 1
  MaxDown = 4
CONSTRAINT ShortLink
INVARIANT TabResponds
SYMMETRY Symmetric
