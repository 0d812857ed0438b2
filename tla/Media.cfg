CONSTANTS
  MaxLen = 3
  MaxBytes = 6
  MaxOut = 2
  Bits = {0}
  MaxKey = 3
  MaxBuf = 7
  Sizes = {480, 720}
  MaxStreams = 4
  Units <- EdgeUnits
  Samples <- EdgeSamples
  Formats <- SomeFormats
SPECIFICATION MediaSpec
INVARIANTS
  CodecKeepsUp
  CryptIsRight
  DecodersFitStream
PROPERTIES
  EveryByteOnce
  PacketsArrive
