SPECIFICATION Spec
CONSTANTS
  Batches = {b1, b2}
  Drafts = {d1, d2}
  Missing = missing
  MaxRuns = 2
SYMMETRY MCSymmetry
INVARIANTS TypeOK NoFalseAlarm ReportReadItsInputs ReadyIsConsistent
CHECK_DEADLOCK FALSE
