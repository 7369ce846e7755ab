\* A client follows one durable operation through retries and restarts, with a
\* window shorter than an attempt, under fair threads, streams and polling.
SPECIFICATION FairSpec
CONSTANTS
  Durable = {prep}
  Volatile = {install}
  Core = {relay}
  RetryFailed = {prep}
  Requests = {r1}
  Options = {o1}
  Reports = {50}
  Calls = {c1, c2}
  Streams = {s1}
  MaxOperations = 1
  Window = 3
  MaxSequence = 8
  Snapshot = Snapshot
  NoEntry = NoEntry
  NoJournal = NoJournal
  NoEvent = NoEvent
  NoOp = NoOp
  NoRequest = NoRequest
  NoOptions = NoOptions
CONSTRAINT OneSort
INVARIANTS
  CompletedWasDone
  DeliveredIsDurable
  EndedStreamToldOutcome
PROPERTIES
  StartedStreamsEnd
