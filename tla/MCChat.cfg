SPECIFICATION Spec
CONSTANTS
  Clients = {c1, c2}
  Quick = c2
  Channels = 2
  MaxMessages = 2
  MaxPosts = 2
  MaxRequests = 2
CONSTRAINT QuickKeepsUp
INVARIANT ScreenIsHistory
VIEW Seen
