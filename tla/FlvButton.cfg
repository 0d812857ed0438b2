CONSTANTS
  Files <- OneRecording
  Jumps <- BackAndForth
  Steppers = {s1}
  s1 = s1
  MaxRuns = 1
  MaxQueued = 1
SPECIFICATION ScreenSpec
INVARIANTS
  ButtonTellsState
