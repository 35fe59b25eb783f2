SPECIFICATION FairSpec
CONSTANTS
  Scrapers = {s1, s2}
  Workers = {w1}
  Handles = {h1, h2}
  NoHandle = NoHandle
  DeadlineRaces = FALSE
PROPERTIES ScrapesFinish Recovers DetectsOutage
