SPECIFICATION Spec
CONSTANTS
  Figures <- MCFigures
  Found <- MCFound
  MarketRows <- MCMarketRows
INVARIANTS
  WriterUsesCanonical
