CONSTANTS
  Never = Never
  Forks = {granite}
  Activations <- MCActivations
  GenesisTimes <- MCGenesisTimes
  BlockTimes <- AnyGap
  ClockTimes <- MCClockTimes
  MaxTimestamp = 7
SPECIFICATION DevSpec
INVARIANTS DevTypeOK AttributesAccepted SteadyClockSkipsNothing
CHECK_DEADLOCK FALSE
