SPECIFICATION FairSpec
CONSTANTS
  Frames <- AllFrames
  FrameLen <- MCFrameLen
  Wire <- MCWire
  HttpAccepts <- MCHttpAccepts
  PACKET_SIZE = 1024
  SIZE_MOD = 65536
  Slack <- MCSlack
  Addr = {1, 2, 3, 4, 5, 6, 7, 8}
  NULL = NULL
  Available <- Dissector
  MaxRegistered = 9
  MaxSigint = 2
INVARIANTS
  TypeOK
  PayloadIsSuffix
  HeapExact
  TransportOverIP
  ApplicationOverTransport
  LayersAscend
  CleanExit
  WalkIsEquipped
  AtMostOneLatePacket
PROPERTIES
  StopIsFinal
  ImplementsDisplay
  UsesReader
  InterruptEndsLoop
  EveryPacketIsFinished
