SPECIFICATION MCSpec
CONSTANTS
  Half = 3
  FrameSize = 2
  Chunks = {1, 2}
  MaxCaptured = 5
  MaxSent = 7
  MaxHeard = 3
  Readers = {r1, r2}
  SymBits = 2
  CodeBits = 8
  UintBits = 2
  FineBits = 2
  Storages = {2, 4, 6}
  MaxOps = 3
  Bytes = {0, 1, 2, 74, 130, 200}
  MaxPacket = 5
  OpusFrame = 960
  PosPer = 2
  Granularity <- MCGranularity
  HalfMax = 4
  SignBatch = 1
  BlockSize = 2
  Choices <- MCChoices
  Excitations <- MCExcitations
  MaxPulses = 2
INVARIANTS
  KeystreamOnce
  IndexAgrees
  SamplesInOrder
  RoundTrip
  FramesCoverPacket
  FramesAgree
CHECK_DEADLOCK FALSE
