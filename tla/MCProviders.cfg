SPECIFICATION MCSpec
CONSTANTS
  Bodies <- MCBodies
  Scripts <- MCScripts
  Listings <- MCListings
  Inputs <- MCInputs
INVARIANTS
  ProvidersTypeOK
  ConversationKept
  FramingTransparent
  DoneOnceAtTheEnd
  StreamedAsWhole
  EmbeddingsInOrder
  ProbeFindsListed
PROPERTIES
  StreamEnds
CHECK_DEADLOCK FALSE
