SPECIFICATION Spec
CONSTANTS
  Sections <- MCSections
  Evidence <- MCEvidence
  Drafts <- MCDrafts
  Demands <- MCDemands
  Rewrites <- MCRewrites
  Reviews <- MCReviews
INVARIANTS
  StoppedForCause
