SPECIFICATION ProcessSpec
CONSTANTS
  s1 = s1
  s2 = s2
  d1 = d1
  c1 = c1
  Sockets = {s1, s2}
  Drivers = {d1}
  Customers = {c1}
  Bookings = {b1}
  NoUser = NoUser
  NoSocket = NoSocket
  Asked <- SomeRooms
  MaxLag = 2
  Candidates = {i1}
  Contacts <- CallPair
INVARIANTS OfferArrives
CHECK_DEADLOCK FALSE
