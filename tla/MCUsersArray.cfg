CONSTANTS
  Terminals = {t1, t2}
  Names = {n1, n2}
  Passwords = {p1}
  Empty = Empty
  MaxUsers = 2
  MaxAsked = 2
  MaxTogether = 2
SPECIFICATION Spec
SYMMETRY Symmetric
VIEW Seen
CONSTRAINTS Together WholeForms
INVARIANT IndexInUsers
