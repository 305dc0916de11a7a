CONSTANTS
  alice = alice
  bob = bob
  Senders = {alice, bob}
  Txs <- MCTxs
  Blocks <- AnyFork
  U64Max = 15
  InitialScalar = 1
  MaxReceipts = 3
SPECIFICATION Spec
INVARIANTS TypeOK GasWithinLimit FootprintWithinLimit CumulativeGas DepositNonces ResultAccountsForBlock
CHECK_DEADLOCK FALSE
