\* One launch with any overrides, and everybody else who changes the Job.
SPECIFICATION LiveSpec
CONSTANTS
  Keys = {k}
  Fields = {f, g}
  Values = {a, b}
  Attempts = 2
  Tries = 2
  MaxRevision = 3
  NoReceipt = NoReceipt
  NoRun = NoRun
CONSTRAINT SameAtFirst
PROPERTIES
  NothingOverwritten
  RunUsesOverrides
  LaunchesSettle
  OutputsAreDelivered
