SPECIFICATION Spec
CONSTANTS
  Scrapers = {s1}
  Workers = {w1}
  Handles = {h1, h2}
  NoHandle = NoHandle
  DeadlineRaces = TRUE
INVARIANTS LockReleased
