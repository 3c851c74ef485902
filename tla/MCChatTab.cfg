SPECIFICATION Spec
CONSTANTS
  Servers = {1, 2}
  Shared = {1}
  None = None
  MaxSlots = 2
  MaxRequests = 2
INVARIANT TabResponds
