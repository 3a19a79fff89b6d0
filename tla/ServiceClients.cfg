SPECIFICATION ServiceSpec
CONSTANTS
  Clients = {c1, c2}
  Keys = {k1, k2}
  TTL = 2
  MaxTime = 5
  Instances = {i1, i2, i3}
  LeaseTTL = 2
  NoInstance = none
  Producers = {p1, p2}
  Consumers = {d1, d2}
  Events = {e1, e2}
  MaxSize = 2
  FullTenths = 5
  BatchSize = 2
  MaxFaults = 2
  Users = {u1, u2}
  MaxStarts = 3
  MaxRaises = 2
INVARIANTS
  ServiceInv
  LeaseExclusive
  HeedingAvoidsRefusal
  AloneIsClean
  LeaksAreCounted
PROPERTIES
  OneGrantPerTTL
  Atomic
  LeaseLapses
  QueueRefined
