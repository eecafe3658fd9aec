CONSTANTS
  Node = {1}
  Start = 1
  PoolKeep = 1
  TempKeep = 2
  MaxSkips = 2
  LateKinds = {}
  Zero = Zero
  MaxEpoch = 4
SPECIFICATION Spec
CONSTRAINT MCConstraint
INVARIANT PanicNeedsTwoMisses
