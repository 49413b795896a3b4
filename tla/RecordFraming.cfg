SPECIFICATION Spec
CONSTANTS
  Sessions <- MCSessions
  WireLength = 4
  MaxChunk = 3
  MaxDatagrams = 2
INVARIANTS
  RecordsIgnoreChunking
  PublishedIsReceived
  StreamsAreKept
CHECK_DEADLOCK FALSE
