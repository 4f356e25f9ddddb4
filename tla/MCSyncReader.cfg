SPECIFICATION ReaderFairSpec
CONSTANTS
  Frames <- MCFramesUdp
  FrameLen <- MCFrameLenUdp
  Wire <- MCWire
  HttpAccepts <- MCHttpAccepts
  PACKET_SIZE = 1024
  SIZE_MOD = 65536
  Slack <- MCSlack
  Addr = {1, 2, 3, 4, 5, 6, 7, 8}
  NULL = NULL
  Available = {"Ethernet", "IP", "udp", "DHCP", "dns"}
  MaxRegistered = 4
  Callbacks = {show, count}
  Displaying = {show}
  MaxCallbacks = 2
  Interceptors = {drop}
  MaxInterceptors = 1
INVARIANTS
  OsiTypeOK
  HeapExact
  TransportOverIP
  NoneIsPassedOver
  ReaderTypeOK
  DeliveredAlike
  ReadLeavesNothing
PROPERTIES
  NoneIsSkipped
  ReadReturns
CHECK_DEADLOCK FALSE
