SPECIFICATION FairSpec
CONSTANTS
  NumFiles = 2
  Valid = {v1, v2}
  Invalid = {bad}
  MaxEdits = 3
INVARIANTS TypeOK
PROPERTIES ImplementsAtomicReload HotReload ReloadsStop
