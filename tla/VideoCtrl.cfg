CONSTANTS
  MaxStreams = 3
  MaxPending = 3
  MaxOutputs = 3
SPECIFICATION FairSpec
INVARIANTS
  WindowIsSafe
PROPERTIES
  NoFrameAfterStop
  ImplementsWindow
  StopReturns
