\* Documents of up to six events: two settings and a nested collection.
CONSTANTS
  Texts <- MCTexts
  Number <- MCNumber
  MaxEvents = 6
SPECIFICATION Spec
INVARIANT TypeOK
INVARIANT FlatDocumentObeyed
CHECK_DEADLOCK FALSE
