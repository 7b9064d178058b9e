SPECIFICATION Spec
INVARIANTS
  SameWeight
  EachOnce
  EveryBitRead
