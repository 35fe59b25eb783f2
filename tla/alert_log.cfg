SPECIFICATION FairSpec
CHECK_DEADLOCK FALSE
CONSTANTS
  Databases = {d1, d2}
  PerDatabaseFiles = FALSE
  MaxRecords = 2
INVARIANTS TypeOK NoDuplicates
PROPERTIES ImplementsExport EveryRecordExported
