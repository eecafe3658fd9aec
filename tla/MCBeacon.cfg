CONSTANTS
  Node = {1, 2}
  Start = 1
  PoolKeep = 1
  TempKeep = 2
  MaxSkips = 0
  LateKinds = {}
  Zero = Zero
  MaxEpoch = 4
SPECIFICATION Spec
CONSTRAINT MCConstraint
INVARIANT TypeOK
INVARIANT NoDoubleCounting
INVARIANT WindowConsistent
