CONSTANTS
  Files <- OneRecording
  Jumps <- Back
  Steppers = {s1}
  s1 = s1
  MaxRuns = 1
  MaxQueued = 1
SPECIFICATION ScreenFairSpec
PROPERTIES
  GuiReturns
  RegulatingEnds
  FrameComesToScreen
