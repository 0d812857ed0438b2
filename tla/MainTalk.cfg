CONSTANTS
  Keys = {"d1", "d2"}
  NWindows = 1
  MaxDevices = 2
  MaxMessages = 1
  MaxEnds = 1
  TalkAnswers = {TRUE, FALSE}
SPECIFICATION FairSpec
INVARIANTS
  CameraOnlyInTalk
PROPERTIES
  OfflineIsStopped
