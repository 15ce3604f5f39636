SPECIFICATION Spec
CONSTANTS
  Clients = {i1, i2, i3}
  Users = {u1, u2}
  Peers = {p1, p2}
  Nicks = {n1, n2}
  None = None
  MaxContacts = 3
  Budgets <- Scenes
SYMMETRY Alike
INVARIANTS
  TypeOK
  OneClient
  UsersStand
  ShownIsTrue
  EventsFindTheirContact
PROPERTIES
  NetworkFollows
CHECK_DEADLOCK FALSE
