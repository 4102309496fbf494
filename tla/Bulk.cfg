CONSTANTS
  Transfers <- BulkIds
  Length <- BulkLengths
  Requested <- BulkRequests
  MaxRetries = 1
  MaxObject = 3
  MaxChunk = 2
  Alignment = 2
  InFlight = 3
  MaxEpisodes = 2
SPECIFICATION BulkSpec
INVARIANTS CompletedIsStored SinkInStep CommitOnce
CHECK_DEADLOCK FALSE
