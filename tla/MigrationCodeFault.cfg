CONSTANTS
  Never = Never
  ChainId = 252
  Activations <- FewActivations
  Deployed <- AllDeployed
  BlockTimes <- Steady
  MaxTimestamp = 6
  MaxFaults = 1
  CodeFaults = TRUE
SPECIFICATION Spec
INVARIANT HoloceneKeepsTokens
CHECK_DEADLOCK FALSE
