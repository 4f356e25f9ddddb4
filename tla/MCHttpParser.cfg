SPECIFICATION FairSpec
CONSTANTS
  Payloads <- MCPayloads
  ULLONG_MAX = 255
  HTTP_MAX_HEADER_SIZE = 55
INVARIANTS
  TypeOK
  AssertionsHold
  CallsInOrder
  ShowsMessage
  LengthIsExact
  HeaderLimit
PROPERTIES
  ParserStops
