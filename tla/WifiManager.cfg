\* Forms and status pages at any time.
SPECIFICATION FairSpec
CONSTANTS
  MIW_MAX_ATTEMPTS = 3
  MaxForms = 3
  MaxStatus = 2
INVARIANTS
  TypeOK
  ChangesArePending
PROPERTIES
  UpdateEnds
  ImplementsStore
