\* Five lines, of which one is malformed and one of another type, and a
\* channel of three chunks: streams end at every piece, under both policies.
CONSTANTS
  Malformed = {2}
  Other = {4}
  Capacity = 3
  MaxLines = 5
SPECIFICATION Spec
INVARIANTS
  TypeOK
  StreamIsConsistent
  ErrorsAreCaused
PROPERTIES
  FeedIsLossyFifo
  AdvertisementsAreSent
