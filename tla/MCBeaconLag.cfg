CONSTANTS
  Node = {1, 2}
  Start = 1
  PoolKeep = 1
  TempKeep = 2
  MaxSkips = 1
  LateKinds = {"sync"}
  Zero = Zero
  MaxEpoch = 3
SPECIFICATION Spec
CONSTRAINT MCConstraint
INVARIANT NoDoubleCounting
