SPECIFICATION Spec
CONSTANTS
  Messages <- MCMessages
  NameSpace = 4
  Over = {0, 1}
  MaxSkip = 2
PROPERTY
  NameIsSkipped
