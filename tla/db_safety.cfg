SPECIFICATION Spec
CONSTANTS
  Scrapers = {s1, s2}
  Workers = {w1, w2}
  Handles = {h1, h2, h3}
  NoHandle = NoHandle
  DeadlineRaces = TRUE
SYMMETRY Symmetry
INVARIANTS TypeOK NoUseAfterClose NoHandleLeak NoTrafficDuringWarmup
PROPERTIES NeverUpInBackoff ImplementsOwnership
