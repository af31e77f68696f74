SPECIFICATION Spec
CONSTANTS
  Chatter <- MCChatter
  MaxChatter <- MCMaxChatter
  Items <- MCItems
  Durations <- MCDurations
  Runtimes <- MCRuntimes
  MaxRows <- MCMaxRows
  Cap <- MCCap
  Null = Null
INVARIANTS
  TypeOK
PROPERTIES
  CountIsTheCollections
  NumbersAreOfTheRun
