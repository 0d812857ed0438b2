CONSTANTS
  d1 = d1
  d2 = d2
  d3 = d3
  Keys = {d1, d2, d3}
  NWindows = 2
  MaxDevices = 3
  MaxMessages = 1
  MaxEnds = 0
  TalkAnswers = {FALSE}
SYMMETRY KeySymmetry
SPECIFICATION Spec
INVARIANTS
  WindowsMatchDevices
  OneWindowPerKey
PROPERTIES
  OnlyFirstIsReplaced
  PlayNeverRefused
