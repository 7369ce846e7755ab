\* Two calls submit different requests of one durable operation, over several
\* attempts, beside a fresh operation and two Core ones, with a cache of one entry.
SPECIFICATION Spec
CONSTANTS
  Durable = {prep}
  Volatile = {install}
  Core = {drain, relay}
  RetryFailed = {}
  Requests = {r1, r2}
  Options = {o1, o2}
  Reports = {50}
  Calls = {c1, c2}
  Streams = {}
  MaxOperations = 1
  Window = 3
  MaxSequence = 7
  Snapshot = Snapshot
  NoEntry = NoEntry
  NoJournal = NoJournal
  NoEvent = NoEvent
  NoOp = NoOp
  NoRequest = NoRequest
  NoOptions = NoOptions
SYMMETRY Symmetry
INVARIANTS
  ActiveIsCached
PROPERTIES
  PromiseSpec
