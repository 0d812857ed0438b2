CONSTANTS
  Files <- Recordings
  Jumps <- BackAndForth
  Steppers = {s1}
  s1 = s1
  MaxRuns = 2
  MaxQueued = 1
SPECIFICATION ScreenSpec
INVARIANTS
  PlayerInv
PROPERTIES
  StepsAreExact
  PictureIsWhole
  OldPictureComesFirst
