\* Two handlers repeat one update while nobody else changes the Job's configuration.
SPECIFICATION Spec
CONSTANTS
  CreationKeys = {}
  UpdateKeys = {u1}
  Definitions = {d1}
  Configurations = {a, b}
  Jobs = {j1}
  Prepared = {j1}
  Handlers = {h1, h2}
  MaxRevision = 3
  NoReceipt = NoReceipt
  NoJob = NoJob
SYMMETRY Symmetry
INVARIANTS
  CommittedUpdateIsRecognised
