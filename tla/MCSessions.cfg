SPECIFICATION Spec
CONSTANTS
  Fds = {f1, f2, f3, f4}
  Users = {u1, u2, u3}
  NoUser = NoUser
  Texts = {blank, busy}
  NoText = blank
  MaxClients = 3
SYMMETRY Symmetry
INVARIANTS TypeOK SessionIdentity SingleSession UserListFresh PeerIsTold
PROPERTY OneSessionPerStep
