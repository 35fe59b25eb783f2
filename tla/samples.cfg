SPECIFICATION Spec
CONSTANTS
  Databases = {"d1", "d2"}
  OwnLabels <- MCOwnLabels
  DatabaseLabel <- MCDatabaseLabel
  LowerWord <- MCLowerWord
  Alphabet <- MCAlphabet
  Default <- MCDefault
  Customs <- MCCustoms
  Broken = Broken
  Results <- MCResults
INVARIANTS TypeOK LastDefinitionInUse Gatherable
