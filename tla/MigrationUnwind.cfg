CONSTANTS
  Never = Never
  ChainId = 252
  Activations <- MCActivations
  Deployed <- MCDeployed
  BlockTimes <- Steady
  MaxTimestamp = 6
  MaxFaults = 1
  MaxUnwinds = 2
  CodeFaults = FALSE
SPECIFICATION UnwindSpec
INVARIANT NamesFollowForks
PROPERTY KeepsPromiseAcrossReverts
CHECK_DEADLOCK FALSE
