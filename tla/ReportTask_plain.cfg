SPECIFICATION FairSpec
CONSTANTS
  Workers = {w1}
  Static = FALSE
  Ops <- MCPlainOps
  ClaimStates <- MCClaimStates
INVARIANTS RunningHasExecutor
PROPERTIES RunSettles ImplementsTaskLifecycle
CHECK_DEADLOCK FALSE
