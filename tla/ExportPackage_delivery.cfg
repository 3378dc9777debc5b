SPECIFICATION Spec
CONSTANTS
  k1 = k1
  k2 = k2
  e1 = e1
  c1 = c1
  c2 = c2
  json = json
  csv = csv
  NoNumber = NoNumber
  Keys = {k1, k2}
  EvidenceIds = {e1}
  Contents = {c1, c2}
  ClaimFiles <- MCClaimFiles
  EvidenceFiles <- MCEvidenceFiles
  MaxImports = 2
  MaxRecords = 2
  MaxForeign = 1
  Formats <- MCFormats
  MaxExports = 2
  MaxCrashes = 1
INVARIANTS
  LastWordCounts
  GroundsTravel
  
PROPERTIES
  ManifestTellsTheTruth
  
CHECK_DEADLOCK FALSE
