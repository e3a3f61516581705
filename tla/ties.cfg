SPECIFICATION Spec
CONSTANTS
  Configs <- MCConfigs
  Base = "A"
  Speeds <- MCSpeeds
  Workers = 2
  Tables <- MCTables
  Anchors <- MCAnchors
INVARIANT TiesInGridOrder
