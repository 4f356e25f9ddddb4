SPECIFICATION FairSpec
CONSTANTS
  Messages <- MCMessages
  NameSpace = 4
  Over = {0, 1}
  MaxSkip = 2
INVARIANTS
  TypeOK
  NameStaysInside
  SizeIsBounded
  ExpandsCorrectly
PROPERTIES
  QuestionsAdvance
  DumpEnds
