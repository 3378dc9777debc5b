SPECIFICATION Spec
CONSTANTS
  Workers = {w1}
  Static = TRUE
  Ops = {"run", "retry_checkpoint"}
  ClaimStates <- MCFewClaimStates
INVARIANT RunningHasExecutor
CHECK_DEADLOCK FALSE
