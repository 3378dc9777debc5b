SPECIFICATION Spec
CONSTANTS
  PlanIds <- MCPlanIds
  Plans <- MCPlans
  Profiles <- MCProfiles
  EarlierSummaries = {"none", "passed", "failed"}
INVARIANTS
  PipelineOrder
  BlockedByPlanner
  NothingLeftOut
  VerdictIsCurrent
  DeliveredIsVouchedFor
PROPERTIES
  RunEnds
CHECK_DEADLOCK FALSE
