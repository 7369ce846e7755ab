\* Requests of two Jobs whose contexts share caches of one entry, and the relays of their answers.
CONSTANTS
  Requests = {t1, t2}
  Jobs = {j1, j2}
  MaxEntries = 1
  Changing = {j1}
  MaxAsks = 3
  MaxVersion = 2
  Streaming = {t1, t2}
  MaxText = 2
  None = None
SYMMETRY Symmetry
CONSTRAINTS RelayedAlone DeletedAlone
SPECIFICATION Spec
INVARIANT DeletedIsNotServed
INVARIANT ContextNeverGoesBack
INVARIANT ToldOnce
INVARIANT NobodyWritesForNobody
CHECK_DEADLOCK FALSE
