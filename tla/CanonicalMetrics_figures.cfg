SPECIFICATION Spec
CONSTANTS
  Figures <- MCFigures
  Found <- MCFound
  MarketRows <- MCMarketRows
INVARIANTS
  NothingBetterLost
PROPERTY
  FiguresSettle
