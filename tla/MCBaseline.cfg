CONSTANTS
  Text <- MCText
  Trim <- MCTrim
  Empty = empty
  Absent = Absent
  Current = one
  Signals <- MCSignals
  Documents <- MCDocuments
  Depth = 2
  Disks <- MCDisks
  empty = empty
  spaces = spaces
  a = a
  aPadded = aPadded
  b = b
  zero = zero
  zeroPadded = zeroPadded
  ratio = ratio
  typo = typo
  why = why
  one = one
  two = two
SPECIFICATION Spec
INVARIANTS
  TypeOK
  NoRepeat
  TakenWholeOrNotAtAll
  NearestDecides
  BlameIsTheFirstFault
