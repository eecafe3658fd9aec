CONSTANTS
  Node <- MCNode2
  Account <- MCAccount
  Mint = "M"
  Txn <- MCTxn
  Genesis <- MCGenesis
  From <- MCFrom
  Vin <- MCVin
  Vout <- MCVout
  Leader <- MCLeader
  Council <- MCCouncil2
  Bcast <- MCBcast2
  Submissions <- MCConflict
  RestartPhases = {}
  MaxRestarts = 0
  Amounts = {0, 1, 2, 3, 4}
SPECIFICATION Spec
INVARIANT NoDoubleSpend
CHECK_DEADLOCK FALSE
