CONSTANTS
  c1 = c1
  c2 = c2
  c3 = c3
  Caller <- MCCaller
  Dst = 2
  Nonce <- MCNonce
  Rand = {0, 1}
  RandomsDistinct = TRUE
SPECIFICATION Spec
INVARIANT TypeOK MapHoldsPending
PROPERTY MuxImplementsCall EveryCallEndsWhileUp
CHECK_DEADLOCK FALSE
