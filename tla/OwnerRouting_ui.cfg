\* One request for a web UI among three computers while the Job moves and restarts.
SPECIFICATION Spec
CONSTANTS
  Nodes = {a, b, old}
  Legacy = {old}
  Clients = {c1}
  MaxVersion = 3
  NoNode = NoNode
INVARIANTS
  RelayedUiIsConfirmed
CHECK_DEADLOCK FALSE
