SPECIFICATION MCSpec
CONSTANTS
  Servers = {1, 2}
  Shared = {1}
  None = None
  MaxSlots = 2
  MaxRequests = 2
INVARIANTS ChatHasServer ChatIsOfServer OwnChangesAreListed WaitHasAnswer
PROPERTY TabStopsOnlyUnlisted
VIEW Seen
