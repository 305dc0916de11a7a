CONSTANTS
  Never = Never
  ChainId = 2521
  Activations <- TwoActivations
  Deployed <- DevnetDeployed
  BlockTimes <- Steady
  MaxTimestamp = 6
  MaxFaults = 1
  MaxUnwinds = 1
  CodeFaults = TRUE
SPECIFICATION UnwindFairSpec
INVARIANTS ProxiesAreSound AllOrNothing ProxiesFollowHead
PROPERTIES HoldersUntouched EventuallyMigrated
CHECK_DEADLOCK FALSE
