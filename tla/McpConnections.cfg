\* Two handlers serve one Job while its owner enables, rotates and disables access.
SPECIFICATION Spec
CONSTANTS
  Jobs = {job}
  Handlers = {h1, h2}
  MaxGrants = 4
  MaxGeneration = 2
SYMMETRY Symmetry
INVARIANTS
  AuthorityIsApproved
  GrantsAreUsedOnce
  ServedUnderCurrentPolicy
PROPERTIES
  PromiseSpec
