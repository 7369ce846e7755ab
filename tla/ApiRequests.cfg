\* Keyed requests: two fair threads, two keys, two bodies, one record retained.
\* Listings: one client, three runs, one run per page, two tokens retained.
\* Streams: one client, a window of two events, two attempts.
\* Routing: one request among three computers, one with an older API.
\* Decisions: two people, two questions, each with the same two answers.
SPECIFICATION SpecInParts
CONSTANTS
  Threads = {t1, t2}
  Identities = {k1, k2}
  Fingerprints = {f1, f2}
  Maximum = 1
  MaxCalls = 2
  NoIdentity = NoIdentity
  NoFingerprint = NoFingerprint
  Runs = {1, 2, 3}
  Listers = {l1}
  Names = {n1, n2, n3}
  PageSize = 1
  Capacity = 2
  NoToken = NoToken
  Watchers = {w1}
  Window = 2
  MaxEvents = 4
  MaxAttempts = 2
  Nodes = {a, b, old}
  Legacy = {old}
  Clients = {c1}
  MaxVersion = 2
  NoNode = NoNode
  Asked = {1, 2}
  People = {p1, p2}
  Choices = {yes, no}
  NoAnswer = NoAnswer
CONSTRAINTS
  FewChanges
INVARIANTS
  OneExecutionPerKey
  AnswerMatchesRequest
  SuccessIsExecutedOnce
  NoRunTwice
  KeptRunsAreListed
  StatusIsTruthful
  EventsToldInOrder
  ServedUnderOneBinding
  AcceptedDecisionStands
PROPERTIES
  RequestsEnd
  RunStreamsEnd
CHECK_DEADLOCK FALSE
