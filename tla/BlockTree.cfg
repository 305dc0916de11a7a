CONSTANTS
  Never = Never
  DefaultParams <- MCDefault
  Schedules <- MCSchedules
  Geneses <- MCGeneses
  Requests <- MCRequests
  DevEnvs <- MCDevEnvs
  Uses <- MCUses
  BlockTimes <- MCTimes
  MaxNumber = 3
SPECIFICATION Spec
INVARIANTS RoutesAgree RefusedOnlyOnGenesis PanicsOnlyMisconfigured
CHECK_DEADLOCK FALSE
