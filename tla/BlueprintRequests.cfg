\* Two launches of one blueprint, with the same or different runs, Jobs and progress, or three
\* additions, removals, installations and registrations of two blueprints and a model they share.
SPECIFICATION SpecInParts
CONSTANTS
  Launches = {l1, l2}
  Runs = {r1, r2}
  Jobs = {j1, j2}
  Progress = {p1, p2}
  NoLaunch = NoLaunch
  NoJob = NoJob
  Tasks = {1, 2, 3}
  Blueprints = {1, 2}
  Models = {m1}
  Nodes = {here, there}
  Here = here
  Nobody = Nobody
SYMMETRY Symmetry
CONSTRAINTS
  BothScriptsOrRepeated
  AgedForSweep
  ExitsAtTheEnds
  OneConcern
  InOrder
CHECK_DEADLOCK FALSE
INVARIANTS
  FailureLeavesNoHelper
  ProgressIsTruthful
  ReportingEnds
  AdditionsAreKept
  InstalledIsRouted
PROPERTIES
  CommittedIsSpared
  SweepSparesRunning
  ClaimedModelsStay
