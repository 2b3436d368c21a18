\* Three nodes in a triangle; announces stop short of the wrap of the hop byte.
SPECIFICATION Spec
CONSTANTS
  o = o
  a = a
  b = b
  oa = oa
  ob = ob
  ab = ab
  Nodes = {o, a, b}
  Owner = o
  Null = Null
  Senders = {b}
  Conns = {oa, ob, ab}
  Ends <- Triangle
  HOP_MODULUS = 4
  MaxHops = 3
INVARIANTS TypeOK PathsDescend NoRoutingLoop BoundedForwarding HopCountIsReal
CHECK_DEADLOCK FALSE
