\* The same mesh when announces go on past the wrap.
SPECIFICATION Spec
CONSTANTS
  o = o
  a = a
  b = b
  oa = oa
  ob = ob
  ab = ab
  Nodes = {o, a, b}
  Owner = o
  Null = Null
  Senders = {b}
  Conns = {oa, ob, ab}
  Ends <- Triangle
  HOP_MODULUS = 4
  MaxHops = 4
INVARIANT HopCountIsReal
CHECK_DEADLOCK FALSE
