CONSTANTS
  Sources <- MCSources
SPECIFICATION Spec
INVARIANTS
  NoTrackedDoubleIsCredited
  ExactWithoutDoubles
