CONSTANTS
  Never = Never
  ChainId = 252
  Activations <- MCActivations
  Deployed <- AllDeployed
  BlockTimes <- Steady
  MaxTimestamp = 6
  MaxFaults = 1
  CodeFaults = FALSE
SPECIFICATION Spec
INVARIANTS TypeOK NeverPanics
PROPERTY KeepsPromise
CHECK_DEADLOCK FALSE
