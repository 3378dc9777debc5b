SPECIFICATION Spec
CONSTANTS
  Workers = {w1}
  Static = TRUE
  Ops <- MCAllOps
  ClaimStates <- MCClaimStates
INVARIANTS CompletedOnFreshVerdict GateBeforeAgents WriterHoldsTask NoEffectSkipped
PROPERTIES LifecycleFollowsTable ArchivedIsFinal
