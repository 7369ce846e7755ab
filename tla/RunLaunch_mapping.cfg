\* A single launch: the counterexample needs no more.
SPECIFICATION Spec
CONSTANTS
  Keys = {k}
  Fields = {f}
  Values = {a, b}
  Attempts = 2
  Tries = 2
  MaxRevision = 2
  NoReceipt = NoReceipt
  NoRun = NoRun
SYMMETRY Symmetry
INVARIANTS
  StartedIsMapped
