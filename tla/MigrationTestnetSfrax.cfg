CONSTANTS
  Never = Never
  ChainId = 2522
  Activations <- FewActivations
  Deployed <- AllDeployed
  BlockTimes <- Steady
  MaxTimestamp = 6
  MaxFaults = 0
  CodeFaults = FALSE
SPECIFICATION Spec
INVARIANT GraniteUpgradesFraxAndSfrax
CHECK_DEADLOCK FALSE
