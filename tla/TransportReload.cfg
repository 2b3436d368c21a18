\* A node restarts from its storage and hears an announce.
SPECIFICATION Spec
CONSTANTS
  o = o
  a = a
  b = b
  oa = oa
  ob = ob
  ab = ab
  Nodes = {o, a, b}
  Owner = o
  Null = Null
  Senders = {b}
  Conns = {oa, ob, ab}
  Ends <- Triangle
  HOP_MODULUS = 4
  MaxHops = 3
INVARIANT RefreshedByAnnounce
CHECK_DEADLOCK FALSE
