CONSTANTS
  Names <- MCNames
  Order <- MCOrder
  Spelling <- MCSpelling
  Dot = "."
  Tests = "tests"
  MaxLinks = 3
  Disks <- MCDisks
  Calls <- MCCalls
  NoPath = NoPath
SPECIFICATION Spec
INVARIANTS
  TypeOK
  ProjectRecordsAreTheDisks
  PytestRunsWhatWasScanned
  NearestEnvironment
