CONSTANTS
  r1 = r1
  r2 = r2
  r3 = r3
  Recordings = {r1, r2, r3}
  None = None
  Keys = {"dir", "ip"}
  Dir = "dir"
SPECIFICATION SessionsSpec
INVARIANTS
  SessionIsSafe
  ConfigIsSafe
  PageMatchesPlayer
PROPERTIES
  ExitReturns
  DecodesWhatWasAsked
