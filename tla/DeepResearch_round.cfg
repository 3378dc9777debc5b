SPECIFICATION Spec
CONSTANTS
  Registered <- MCRegistered
  Offered <- MCOffered
  Querying <- MCQuerying
  Calls <- MCCalls
  Symbols <- MCSymbols
  Own = "ACME"
  Rows <- MCHits
  Answers <- MCAnswers
  MaxSteps = 2
  MaxToolCalls = 3
  MaxAttempts = 2
  MaxBatch = 2
  Hits <- MCHits
  Engines <- MCEngines
  Known <- MCKnown
  HitsOf <- MCHitsOf
  Company = "ACME"
  Topk = 3
  Reserved <- MCReserved
  Cap <- MCCap
INVARIANTS
  EveryCallAnswered
  DegradedExactlyIfTold
  NobodyCrowdedOut
  NoForeignEvidence
PROPERTIES
  TaskEnds
CHECK_DEADLOCK FALSE
