SPECIFICATION Spec
CONSTANTS
  Players = {p1}
  Addresses = {a1, a2}
  Sessions = {s1, s2, s3, s4, s5}
  Clients = {c1, c2, c3, c4, c5}
  MaxVisits = 2
  MaxFaults = 0
  None = None
PROPERTY TimeoutEndsOwnSession
CHECK_DEADLOCK FALSE
