CONSTANTS
  alice = alice
  bob = bob
  Senders = {alice, bob}
  Txs <- MCTxs
  Blocks <- MCBlocks
  U64Max = 15
  InitialScalar = 1
  MaxReceipts = 3
  MaxRetries = 2
SPECIFICATION FairSpecBoth
INVARIANT SameOutcome
INVARIANT NeverRefused
PROPERTY EventuallyValidated
CHECK_DEADLOCK FALSE
