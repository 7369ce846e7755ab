\* A stream of an operation kept only in memory.
SPECIFICATION FairSpec
CONSTANTS
  Durable = {}
  Volatile = {install}
  Core = {}
  RetryFailed = {}
  Requests = {r1}
  Options = {o1}
  Reports = {50}
  Calls = {c1}
  Streams = {s1}
  MaxOperations = 1
  Window = 3
  MaxSequence = 7
  Snapshot = Snapshot
  NoEntry = NoEntry
  NoJournal = NoJournal
  NoEvent = NoEvent
  NoOp = NoOp
  NoRequest = NoRequest
  NoOptions = NoOptions
PROPERTIES
  EveryStreamEnds
