CONSTANTS
  Never = Never
  Forks = {granite}
  Activations <- MCActivations
  GenesisTimes <- MCGenesisTimes
  BlockTimes <- AnyGap
  ClockTimes <- MCClockTimes
  MaxTimestamp = 7
SPECIFICATION DevSpec
INVARIANT AlwaysTriggered
CHECK_DEADLOCK FALSE
