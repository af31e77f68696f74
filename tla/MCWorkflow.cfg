CONSTANTS
  UnitSpace <- MCUnitSpace
  MaxMembers = 2
  OptionSpace <- MCOptionSpace
  MaxRuns = 2
  Files <- MCFiles
SPECIFICATION Spec
INVARIANTS
  TypeOK
  ReportsIffAuditable
  EveryMemberListed
  FlagsTellWhatIsThere
  ChildrenInOrder
  GuideGoesByWholeReports
PROPERTIES
  ReportIsKeptUntilTheNext
  EndsUnlessAChildHangs
