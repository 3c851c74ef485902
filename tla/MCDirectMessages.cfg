SPECIFICATION Spec
CONSTANTS
  Clients = {c1, c2}
  Quick = c2
  MaxMessages = 2
  HistoryLimit = 1
  MaxPosts = 3
  MaxRequests = 2
CONSTRAINT QuickKeepsUp
INVARIANTS TheirsArrive NothingTwice MineStay
VIEW Seen
