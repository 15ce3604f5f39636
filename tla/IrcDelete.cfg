SPECIFICATION Spec
CONSTANTS
  Clients = {i1, i2, i3}
  Users = {u1, u2}
  Peers = {p1, p2}
  Nicks = {n1, n2}
  None = None
  MaxContacts = 3
  Budgets <- Deletion
SYMMETRY Alike
INVARIANT
  DeleteWorks
CHECK_DEADLOCK FALSE
