SPECIFICATION Spec
CONSTANTS
  MaxCalls = 2
  Urls <- MCUrls
  Behinds <- MCBehinds
INVARIANTS
  UrlTypeOK
  FieldsInside
  FieldsAreExact
  PortIsExact
CHECK_DEADLOCK FALSE
