CONSTANTS
  d1 = d1
  d2 = d2
  Keys = {d1, d2}
  NWindows = 2
  MaxDevices = 2
  MaxMessages = 1
  MaxEnds = 1
  TalkAnswers = {TRUE, FALSE}
SYMMETRY KeySymmetry
SPECIFICATION Spec
INVARIANTS
  TalkFlagIsTrue
