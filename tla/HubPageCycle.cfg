CONSTANTS
  Clients = {c1, c2}
  Pages = {p1, p2, p3, p4}
  Stranger = p4
  Home = home
  Away = away
  Spaces = {home, away}
  SpaceOf <- OneAway
  Root = Root
  MaxRequests = 4
SPECIFICATION PagesSpec
SYMMETRY Sym
INVARIANTS NoCycles
CHECK_DEADLOCK FALSE
