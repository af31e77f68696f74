CONSTANTS
  Places <- MCPlaces
  Inside <- MCInside
  Dirs <- MCDirs
  Names <- MCNames
  Globs <- MCGlobs
  Star = Star
  Patterns <- MCPatterns
  MaxPatterns = 2
  Trees <- MCTrees
  pkgs = pkgs
  one = one
  two = two
  note = note
  recursive = recursive
SPECIFICATION Spec
INVARIANTS
  TypeOK
  NoMemberTwice
  MembersAreDetermined
  FailsIffAPatternIsBad
