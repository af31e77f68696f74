CONSTANTS
  NodeIds <- MCOneTest
  Files <- MCOneTest
  Fingerprints <- MCFingerprints
  NoFingerprint = NoFingerprint
  MaxRatio <- MCMaxRatio
  SetupTerm <- MCSetupTerm
  Bodies <- MCBodies
  Parsed <- MCParsed
  AnyText = AnyText
  Undecided = Undecided
  MaxEdits = 4
  fine = fine
  hollow = hollow
SPECIFICATION Spec
INVARIANTS
  HeldBackWasJudged
  UnknownMeansGone
PROPERTIES
  ReviewSettles
