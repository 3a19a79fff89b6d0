SPECIFICATION LeaseSpec
CONSTANTS
  Instances = {i1, i2}
  LeaseTTL = 2
  NoInstance = none
INVARIANT AtMostOneLeader
