CONSTANTS
  Never = Never
  Forks = {granite, holocene}
  Activations <- MCActivations
  GenesisTimes <- MCGenesisTimes
  BlockTimes = {1, 2, 3}
  MaxTimestamp = 9
SPECIFICATION Spec
INVARIANTS TypeOK ExactlyAtActivation RunsAgainOnlyOneSecondLater NotSkipped
CHECK_DEADLOCK FALSE
