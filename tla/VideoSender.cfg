CONSTANTS
  MaxSessions = 2
  MaxPackets = 2
SPECIFICATION FairSpec
INVARIANTS
  PacketsHaveOneOwner
  StopReachesPop
  TalkEndsItsThreads
  TalkIsSafe
  OneStaleStampPerProducer
PROPERTIES
  ImplementsStream
  GuiReturns
  AcceptedPacketsLeave
