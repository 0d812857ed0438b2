CONSTANTS
  Sizes = {480, 720}
  MaxStreams = 2
  MaxPictures = 3
  MaxPending = 3
SPECIFICATION FairSpec
INVARIANTS
  DrawnAsDecoded
PROPERTIES
  NeverGoesBack
  LastPictureIsDrawn
