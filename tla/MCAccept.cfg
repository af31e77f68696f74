CONSTANTS
  NodeIds <- MCNodeIds
  Files <- MCFiles
  Fingerprints <- MCFingerprints
  NoFingerprint = NoFingerprint
  MaxRatio <- MCMaxRatio
  SetupTerm <- MCSetupTerm
  Records <- MCRecords
  MaxTests = 2
  EntrySpace <- MCEntrySpace
  MaxEntries = 3
  TopNs <- MCTopNs
  FileMocks <- MCFileMocks
  Undecided = Undecided
  clean = clean
  long = long
  short = short
  mocked = mocked
  checked = checked
  other = other
  bare = bare
SPECIFICATION Spec
INVARIANTS
  TypeOK
  EveryEntryAccountedForOnce
  HeldBackMeansReviewed
  AcceptedSignalsCanonical
  OnlyContentChangedHidesAFiringFinding
  ReaderSeesTheRanking
PROPERTIES
  ImplementsContract
