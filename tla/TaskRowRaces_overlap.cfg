SPECIFICATION Spec
CONSTANTS
  Threads = {t1, t2}
  Loop = loop
  MaxScheduled = 2
SYMMETRY MCSymmetry
INVARIANTS OverwritingStartsSecond OverwritingOrphansRow
PROPERTY OverwritingRevives
