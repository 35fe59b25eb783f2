SPECIFICATION FairSpec
CONSTANTS
  Databases = {d1, d2}
  Metrics = {m1}
  ErrCap = 1
  MetricCap = 1
INVARIANTS TypeOK NoSendOnClosed NeverStuck NoStragglers
PROPERTIES ImplementsScrape ScrapeEnds
