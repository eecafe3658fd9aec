CONSTANTS
  Node <- MCNode3
  Account <- MCAccount
  Mint = "M"
  Txn <- MCTxn
  Genesis <- MCGenesis
  From <- MCFrom
  Vin <- MCVin
  Vout <- MCVout
  Leader <- MCLeader
  Council <- MCCouncilAll
  Bcast <- MCBcast3
  Submissions <- MCSerial
  RestartPhases = {"genesis", "serving"}
  MaxRestarts = 1
  Amounts = {0, 1, 2, 3, 4}
SPECIFICATION Spec
INVARIANT TypeOK NoDoubleSpend BalancesMatchUtxos ValueConserved WalletTxAccepted
PROPERTY SavesReachAll
CHECK_DEADLOCK FALSE
