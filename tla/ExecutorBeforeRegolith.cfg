CONSTANTS
  alice = alice
  bob = bob
  Senders = {alice, bob}
  Txs <- MCTxs
  Blocks <- BeforeRegolith
  U64Max = 15
  InitialScalar = 1
  MaxReceipts = 3
SPECIFICATION Spec
INVARIANT RegularWithinLimit
CHECK_DEADLOCK FALSE
