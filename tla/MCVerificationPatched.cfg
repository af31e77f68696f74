CONSTANTS
  Sources <- MCPatched
SPECIFICATION Spec
INVARIANTS
  PatchedCallsAreRejected
