SPECIFICATION FairSpec
CHECK_DEADLOCK FALSE
CONSTANTS
  Databases = {d1, d2}
  Interval = 2
  MetricInterval = 1
  MaxTime = 4
INVARIANTS TypeOK RequestNotLost CachedIsComplete
PROPERTIES ScrapedAfterWarmup
