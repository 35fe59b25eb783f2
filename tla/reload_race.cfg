SPECIFICATION FairSpec
CONSTANTS
  NumFiles = 1
  Valid = {v1, v2}
  Invalid = {bad}
  MaxEdits = 3
PROPERTIES ServesNewMetrics
