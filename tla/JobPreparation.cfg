\* Two handlers create and correct the Job of one key, with two configurations,
\* or two keys update one Job, which its other supervisor changes too.
SPECIFICATION Spec
CONSTANTS
  CreationKeys = {hire}
  UpdateKeys = {u1, u2}
  Definitions = {d1}
  Configurations = {a, b}
  Jobs = {j1, j2, p}
  Prepared = {p}
  Handlers = {h1, h2}
  MaxRevision = 3
  NoReceipt = NoReceipt
  NoJob = NoJob
SYMMETRY Symmetry
CONSTRAINT OneKindOfRequest
INVARIANTS
  OneJobPerKey
  CompletedWasSaved
PROPERTIES
  FenceHolds
