SPECIFICATION Spec
CONSTANTS
  u1 = u1
  u2 = u2
  e1 = e1
  e2 = e2
  p1 = p1
  p2 = p2
  p3 = p3
  p4 = p4
  own = own
  shared = shared
  other = other
  sku1 = sku1
  c1 = c1
  c2 = c2
  c3 = c3
  NoSku = NoSku
  Users = {u1, u2}
  Policies = {p1, p2}
  Pools = {own, shared, other}
  Skus = {sku1}
  Ranking <- Two
  PolicySpec <- StackablePolicies
  Calls = {c1, c2}
  CallOf <- TwoCalls
  Minute = 3
  MaxNow = 1
PROPERTY HardGates
