CONSTANTS
  Segments <- MCSegments
  Underscored <- MCUnderscored
  Itself = 6
  Nodeids = {t1, t2}
  Suites <- MCSuites
  Projects <- MCProjects
  Overrides <- MCOverrides
  Absent = Absent
  Unknown <- MCUnknown
  Cap = 2
  t1 = t1
  t2 = t2
SPECIFICATION Spec
INVARIANTS
  CovPrefersDeclaredPackage
